---- MODULE Spec2Model ----
(***************************************************************************)
(* Model of the graph retrieval tool (youtube-graph-rag): the GraphRAG     *)
(* class (nodes, bidirectional edge list, cosine similarity, createGraph,  *)
(* query), the process-wide graphCache with its TTL, the asynchronous      *)
(* execute handler and clearGraphCache; and of the hybrid query tool       *)
(* (youtube-hybrid-vector-query): buildFilterQuery, calculateHybridScore   *)
(* and its execute handler.                                                *)
(*                                                                         *)
(* Numbers.  Similarities are kept exact: a similarity is a reduced        *)
(* fraction <<num, den>> with den > 0.  The embeddings of the model have   *)
(* integer components and integer norms, so dot / sqrt(n1 * n2) is a       *)
(* rational and the model computes the value the code computes.            *)
(* A threshold is a number of tenths (7 stands for 0.7).                   *)
(***************************************************************************)
EXTENDS Integers, Sequences, FiniteSets, Bags, TLC

(***************************************************************************)
(* Bounds of the model.                                                    *)
(***************************************************************************)
\* length of an embedding; the tool constructs GraphRAG(1536, threshold)
EmbeddingDimension == 2
\* longest candidate list the vector store returns / createGraph is given
MaxNodes == 3
\* number of GraphRAG objects one behaviour may construct
MaxGraphs == 2
\* the clock advances in steps of CACHE_TTL_MS / TicksPerTTL
TicksPerTTL == 2
\* number of clock steps of one behaviour
MaxTicks == 2
\* number of requests that may be in flight together
MaxRequests == 2
\* largest randomWalkSteps handed to query
MaxWalkSteps == 3
\* largest topK handed to query
MaxTopK == 3
\* Math.random() returns one of 0, 1/RandomGrid, ..., (RandomGrid - 1)/RandomGrid
RandomGrid == 4
\* deepest nesting of $and, $or and $not in a filter
MaxDepth == 1

(***************************************************************************)
(* Exact arithmetic on fractions.                                          *)
(***************************************************************************)
Abs(x) == IF x < 0 THEN -x ELSE x

RECURSIVE GCD(_, _)
GCD(a, b) == IF b = 0 THEN a ELSE GCD(b, a % b)

\* the number n / d (d # 0) as a reduced fraction with positive denominator
Frac(n, d) ==
  LET g == GCD(Abs(n), Abs(d))
      s == IF d < 0 THEN -1 ELSE 1
  IN  <<(s * n) \div g, (s * d) \div g>>

FracLT(x, y) == x[1] * y[2] < y[1] * x[2]
FracLE(x, y) == x[1] * y[2] <= y[1] * x[2]
FracMin(x, y) == IF FracLT(y, x) THEN y ELSE x
FracMax(x, y) == IF FracLT(x, y) THEN y ELSE x
FracOfInt(n) == <<n, 1>>
\* a threshold given in tenths, as a fraction
FracOfTenths(t) == Frac(t, 10)
FracAdd(x, y) == Frac(x[1] * y[2] + y[1] * x[2], x[2] * y[2])
FracSub(x, y) == Frac(x[1] * y[2] - y[1] * x[2], x[2] * y[2])
FracMul(x, y) == Frac(x[1] * y[1], x[2] * y[2])

\* Math.sqrt on the squares the model's embeddings produce
Sqrt(x) == CHOOSE r \in 0..x : r * r <= x /\ (r + 1) * (r + 1) > x

(***************************************************************************)
(* Embeddings.                                                             *)
(***************************************************************************)
\* a two-component vector padded with zeros to the embedding dimension
Pad(x, y) ==
  [i \in 1..EmbeddingDimension |-> IF i = 1 THEN x ELSE IF i = 2 THEN y ELSE 0]

\* embeddings of the right dimension: all have an integer norm
GoodVectors == {Pad(1, 0), Pad(3, 4), Pad(4, 3), Pad(0, 0)}
\* an embedding one component short
ShortVector == [i \in 1..(EmbeddingDimension - 1) |-> 1]

\* GraphEmbedding: {vector: number[]}; has = FALSE is a missing vector
Emb(v) == [has |-> TRUE, vector |-> v]
NoVector == [has |-> FALSE, vector |-> <<>>]
Embeddings == {Emb(v) : v \in GoodVectors \cup {ShortVector}} \cup {NoVector}

SeqsUpTo(S, n) == UNION {[1..k -> S] : k \in 0..n}

(***************************************************************************)
(* class GraphRAG                                                          *)
(***************************************************************************)
\* index.toString() for the indices of the model
Digits == <<"0", "1", "2", "3", "4", "5", "6", "7", "8", "9">>
IndexToString(i) == Digits[i + 1]

\* new GraphRAG(dimension, threshold); oid is the identity of the object
NewGraphRAG(oid, dimension, threshold) ==
  [oid |-> oid, nodes |-> <<>>, edges |-> <<>>,
   dimension |-> dimension, threshold |-> threshold]

\* this.nodes.has(id)
HasNode(g, id) == \E k \in 1..Len(g.nodes) : g.nodes[k].id = id

\* this.nodes.set(id, node): a Map keeps the insertion order of its keys
NodesSet(nodes, node) ==
  IF \E k \in 1..Len(nodes) : nodes[k].id = node.id
  THEN [k \in 1..Len(nodes) |-> IF nodes[k].id = node.id THEN node ELSE nodes[k]]
  ELSE Append(nodes, node)

\* an addNode that does not check the dimension
AddNodeAnyDimension(g, node) ==
  IF ~node.embedding.has
  THEN [err |-> "Node must have an embedding", graph |-> g]
  ELSE [err |-> "none", graph |-> [g EXCEPT !.nodes = NodesSet(@, node)]]

\* addNode: the result is the graph after the call and the error thrown, if any
AddNode(g, node) ==
  IF ~node.embedding.has
  THEN [err |-> "Node must have an embedding", graph |-> g]
  ELSE IF Len(node.embedding.vector) # g.dimension
  THEN [err |-> "Embedding dimension must be", graph |-> g]
  ELSE [err |-> "none", graph |-> [g EXCEPT !.nodes = NodesSet(@, node)]]

\* an addEdge that pushes the edge without its reverse
AddEdgeOneWay(g, edge) ==
  IF ~HasNode(g, edge.source) \/ ~HasNode(g, edge.target)
  THEN [err |-> "Both source and target nodes must exist", graph |-> g]
  ELSE [err |-> "none", graph |-> [g EXCEPT !.edges = Append(@, edge)]]

\* addEdge: pushes the edge and its reverse
AddEdge(g, edge) ==
  IF ~HasNode(g, edge.source) \/ ~HasNode(g, edge.target)
  THEN [err |-> "Both source and target nodes must exist", graph |-> g]
  ELSE [err |-> "none",
        graph |-> [g EXCEPT !.edges =
                     Append(Append(@, edge),
                            [source |-> edge.target, target |-> edge.source,
                             weight |-> edge.weight, type |-> edge.type])]]

getNodeCount(g) == Len(g.nodes)

\* this.edges.length / 2, a JavaScript number: a half when the length is odd
getEdgeCount(g) == Frac(Len(g.edges), 2)

\* getNeighbors: the targets of the entries whose source is nodeId, in order
getNeighbors(g, nodeId) ==
  LET F[k \in 0..Len(g.edges)] ==
        IF k = 0 THEN <<>>
        ELSE IF g.edges[k].source = nodeId
             THEN Append(F[k - 1], [id |-> g.edges[k].target, weight |-> g.edges[k].weight])
             ELSE F[k - 1]
  IN  F[Len(g.edges)]

RECURSIVE SumSeq(_)
SumSeq(s) == IF s = <<>> THEN 0 ELSE s[1] + SumSeq(Tail(s))

\* cosineSimilarity throws when the lengths differ
CosineThrows(vec1, vec2) == Len(vec1) # Len(vec2)

\* the quotient taken over the first vector's squared norm
cosineSimilarityByFirstNorm(vec1, vec2) ==
  LET dotProduct == SumSeq([i \in 1..Len(vec1) |-> vec1[i] * vec2[i]])
      normVec1 == SumSeq([i \in 1..Len(vec1) |-> vec1[i] * vec1[i]])
  IN  IF normVec1 = 0 THEN FracOfInt(0)
      ELSE FracMax(FracOfInt(-1), FracMin(FracOfInt(1), Frac(dotProduct, normVec1)))

\* cosineSimilarity for vectors of equal length
cosineSimilarity(vec1, vec2) ==
  LET dotProduct == SumSeq([i \in 1..Len(vec1) |-> vec1[i] * vec2[i]])
      normVec1 == SumSeq([i \in 1..Len(vec1) |-> vec1[i] * vec1[i]])
      normVec2 == SumSeq([i \in 1..Len(vec1) |-> vec2[i] * vec2[i]])
      magnitudeProduct == Sqrt(normVec1 * normVec2)
  IN  IF magnitudeProduct = 0 THEN FracOfInt(0)
      ELSE FracMax(FracOfInt(-1),
                   FracMin(FracOfInt(1), Frac(dotProduct, magnitudeProduct)))

\* similarity >= this.threshold
ExceedsThresholdInclusive(similarity, threshold) ==
  FracLE(FracOfTenths(threshold), similarity)

\* line 161: similarity > this.threshold
ExceedsThreshold(similarity, threshold) == FracLT(FracOfTenths(threshold), similarity)

\* chunks.forEach((chunk, index) => this.addNode(...)), from index k on
RECURSIVE CreateNodes(_, _, _, _)
CreateNodes(g, chunks, embeddings, k) ==
  IF k >= Len(chunks) THEN [err |-> "none", graph |-> g]
  ELSE LET node == [id |-> IndexToString(k),
                    content |-> chunks[k + 1].text,
                    embedding |-> embeddings[k + 1],
                    metadata |-> chunks[k + 1].metadata]
           r == AddNode(g, node)
       IN  IF r.err # "none" THEN r
           ELSE CreateNodes(r.graph, chunks, embeddings, k + 1)

\* the two nested loops of createGraph, from the pair (i, j) on
RECURSIVE CreateEdges(_, _, _, _, _)
CreateEdges(g, embeddings, i, j, n) ==
  IF i >= n THEN [err |-> "none", graph |-> g]
  ELSE IF j >= n THEN CreateEdges(g, embeddings, i + 1, i + 2, n)
  ELSE LET firstEmbedding == embeddings[i + 1].vector
           secondEmbedding == embeddings[j + 1].vector
       IN  IF CosineThrows(firstEmbedding, secondEmbedding)
           THEN [err |-> "Vector dimensions must match", graph |-> g]
           ELSE LET similarity == cosineSimilarity(firstEmbedding, secondEmbedding)
                IN  IF ExceedsThreshold(similarity, g.threshold)
                    THEN LET r == AddEdge(g, [source |-> IndexToString(i),
                                              target |-> IndexToString(j),
                                              weight |-> similarity,
                                              type |-> "semantic"])
                         IN  IF r.err # "none" THEN r
                             ELSE CreateEdges(r.graph, embeddings, i, j + 1, n)
                    ELSE CreateEdges(g, embeddings, i, j + 1, n)

\* createGraph: the graph after the call (partly built when it throws) and the error
createGraph(g, chunks, embeddings) ==
  IF Len(chunks) = 0 \/ Len(embeddings) = 0
  THEN [err |-> "Chunks and embeddings arrays must not be empty", graph |-> g]
  ELSE IF Len(chunks) # Len(embeddings)
  THEN [err |-> "Chunks and embeddings must have the same length", graph |-> g]
  ELSE LET r == CreateNodes(g, chunks, embeddings, 0)
       IN  IF r.err # "none" THEN r
           ELSE CreateEdges(r.graph, embeddings, 0, 1, Len(chunks))

\* query: the dimension check of line 231; the result is the error thrown, if any
QueryError(g, query) ==
  IF Len(query) # g.dimension THEN "Query embedding must have dimension" ELSE "none"

\* the values Math.random() returns: numbers of [0, 1)
RandomDraws == {Frac(k, RandomGrid) : k \in 0..(RandomGrid - 1)}

\* neighbors.reduce((sum, n) => sum + n.weight, 0)
TotalWeight(neighbors) ==
  LET F[k \in 0..Len(neighbors)] ==
        IF k = 0 THEN FracOfInt(0) ELSE FracAdd(F[k - 1], neighbors[k].weight)
  IN  F[Len(neighbors)]

\* the loop of lines 177-184, from the k-th neighbor on
RECURSIVE SelectFrom(_, _, _)
SelectFrom(neighbors, k, remainingWeight) ==
  IF k > Len(neighbors) THEN neighbors[Len(neighbors)].id
  ELSE LET remaining == FracSub(remainingWeight, neighbors[k].weight)
       IN  IF FracLE(remaining, FracOfInt(0)) THEN neighbors[k].id
           ELSE SelectFrom(neighbors, k + 1, remaining)

\* selectWeightedNeighbor for a non-empty list; random is the value of Math.random()
selectWeightedNeighbor(neighbors, random) ==
  SelectFrom(neighbors, 1, FracMul(random, TotalWeight(neighbors)))

\* visits.set(id, (visits.get(id) || 0) + 1): a Map keeps the insertion order
RecordVisit(visits, id) ==
  IF \E k \in 1..Len(visits) : visits[k].id = id
  THEN [k \in 1..Len(visits) |->
          IF visits[k].id = id THEN [visits[k] EXCEPT !.count = @ + 1] ELSE visits[k]]
  ELSE Append(visits, [id |-> id, count |-> 1])

\* the state of a walk before its first iteration (lines 189-190); random is the
\* value Math.random() returned at line 197 in the last iteration
WalkStart(startNodeId) ==
  [currentNodeId |-> startNodeId, step |-> 0, visits |-> <<>>,
   random |-> FracOfInt(0)]

\* an iteration whose restart leaves the walker where it is
WalkIterationNoJump(g, startNodeId, restartProb, w, random1, random2) ==
  LET neighbors == getNeighbors(g, w.currentNodeId)
      restart == FracLT(random1, restartProb)
  IN  [currentNodeId |->
         IF restart THEN w.currentNodeId
         ELSE IF Len(neighbors) = 0 THEN startNodeId
         ELSE selectWeightedNeighbor(neighbors, random2),
       step |-> w.step + 1,
       visits |-> RecordVisit(w.visits, w.currentNodeId),
       random |-> random1]

\* an iteration whose restart puts the walker on the first node of the graph
WalkIterationToFirstNode(g, startNodeId, restartProb, w, random1, random2) ==
  LET neighbors == getNeighbors(g, w.currentNodeId)
      restart == FracLT(random1, restartProb)
  IN  [currentNodeId |->
         IF restart THEN g.nodes[1].id
         ELSE IF Len(neighbors) = 0 THEN startNodeId
         ELSE selectWeightedNeighbor(neighbors, random2),
       step |-> w.step + 1,
       visits |-> RecordVisit(w.visits, w.currentNodeId),
       random |-> random1]

\* one iteration of the loop of lines 192-211; random1 is the value Math.random()
\* returns at line 197, random2 the one it returns in selectWeightedNeighbor
WalkIteration(g, startNodeId, restartProb, w, random1, random2) ==
  LET neighbors == getNeighbors(g, w.currentNodeId)
      restart == FracLT(random1, restartProb)
  IN  [currentNodeId |->
         IF restart THEN startNodeId
         ELSE IF Len(neighbors) = 0 THEN startNodeId
         ELSE selectWeightedNeighbor(neighbors, random2),
       step |-> w.step + 1,
       visits |-> RecordVisit(w.visits, w.currentNodeId),
       random |-> random1]

\* Array.from(visits.values()).reduce((a, b) => a + b, 0)
TotalVisits(visits) ==
  LET F[k \in 0..Len(visits)] == IF k = 0 THEN 0 ELSE F[k - 1] + visits[k].count
  IN  F[Len(visits)]

\* a normalisation that divides by the number of nodes visited
NormalizedVisitsByNodes(visits) ==
  [k \in 1..Len(visits) |->
     [id |-> visits[k].id, score |-> Frac(visits[k].count, Len(visits))]]

\* lines 213-220: the loop body runs only for a non-empty visits, so that
\* totalVisits is not 0 where it divides
NormalizedVisits(visits) ==
  [k \in 1..Len(visits) |->
     [id |-> visits[k].id, score |-> Frac(visits[k].count, TotalVisits(visits))]]

\* lines 236-239: the similarity of the query to every node, in the order of the Map
Similarities(g, query) ==
  [k \in 1..Len(g.nodes) |->
     [id |-> g.nodes[k].id,
      similarity |-> cosineSimilarity(query, g.nodes[k].embedding.vector)]]

\* a sort that puts an element before the elements of equal similarity
SortBySimilarityUnstable(similarities) ==
  LET Insert(sorted, x) ==
        LET p == Cardinality({k \in 1..Len(sorted) :
                                FracLT(x.similarity, sorted[k].similarity)})
        IN  SubSeq(sorted, 1, p) \o <<x>> \o SubSeq(sorted, p + 1, Len(sorted))
      F[k \in 0..Len(similarities)] ==
        IF k = 0 THEN <<>> ELSE Insert(F[k - 1], similarities[k])
  IN  F[Len(similarities)]

\* line 242: similarities.sort((a, b) => b.similarity - a.similarity); the sort
\* of an Array is stable
SortBySimilarity(similarities) ==
  LET Insert(sorted, x) ==
        LET p == Cardinality({k \in 1..Len(sorted) :
                                FracLE(x.similarity, sorted[k].similarity)})
        IN  SubSeq(sorted, 1, p) \o <<x>> \o SubSeq(sorted, p + 1, Len(sorted))
      F[k \in 0..Len(similarities)] ==
        IF k = 0 THEN <<>> ELSE Insert(F[k - 1], similarities[k])
  IN  F[Len(similarities)]

\* array.slice(0, end) for an end that is a count (0, 1, 2, ...)
Slice(array, end) == SubSeq(array, 1, IF end < Len(array) THEN end ELSE Len(array))

\* a fusion that overwrites the score a node already has
FuseOverwriting(rerankedNodes, similarity, walkScores) ==
  LET Set(entries, nodeId, walkScore) ==
        IF \E k \in 1..Len(entries) : entries[k].id = nodeId
        THEN [k \in 1..Len(entries) |->
                IF entries[k].id = nodeId
                THEN [id |-> nodeId, score |-> FracMul(similarity, walkScore)]
                ELSE entries[k]]
        ELSE Append(entries, [id |-> nodeId, score |-> FracMul(similarity, walkScore)])
      F[k \in 0..Len(walkScores)] ==
        IF k = 0 THEN rerankedNodes
        ELSE Set(F[k - 1], walkScores[k].id, walkScores[k].score)
  IN  F[Len(walkScores)]

\* lines 253-260: existingScore + similarity * walkScore for every visited node;
\* (score || 0) is the score, 0 when the node has none
Fuse(rerankedNodes, similarity, walkScores) ==
  LET Set(entries, nodeId, walkScore) ==
        IF \E k \in 1..Len(entries) : entries[k].id = nodeId
        THEN [k \in 1..Len(entries) |->
                IF entries[k].id = nodeId
                THEN [id |-> nodeId,
                      score |-> FracAdd(entries[k].score, FracMul(similarity, walkScore))]
                ELSE entries[k]]
        ELSE Append(entries, [id |-> nodeId,
                              score |-> FracAdd(FracOfInt(0),
                                                FracMul(similarity, walkScore))])
      F[k \in 0..Len(walkScores)] ==
        IF k = 0 THEN rerankedNodes
        ELSE Set(F[k - 1], walkScores[k].id, walkScores[k].score)
  IN  F[Len(walkScores)]

\* a sort by ascending score
SortByScoreAscending(entries) ==
  LET Insert(sorted, x) ==
        LET p == Cardinality({k \in 1..Len(sorted) : FracLE(sorted[k].score, x.score)})
        IN  SubSeq(sorted, 1, p) \o <<x>> \o SubSeq(sorted, p + 1, Len(sorted))
      F[k \in 0..Len(entries)] == IF k = 0 THEN <<>> ELSE Insert(F[k - 1], entries[k])
  IN  F[Len(entries)]

\* line 265: .sort((a, b) => b.score - a.score), stable
SortByScore(entries) ==
  LET Insert(sorted, x) ==
        LET p == Cardinality({k \in 1..Len(sorted) : FracLE(x.score, sorted[k].score)})
        IN  SubSeq(sorted, 1, p) \o <<x>> \o SubSeq(sorted, p + 1, Len(sorted))
      F[k \in 0..Len(entries)] == IF k = 0 THEN <<>> ELSE Insert(F[k - 1], entries[k])
  IN  F[Len(entries)]

\* this.nodes.get(id)
NodeOf(g, id) == g.nodes[CHOOSE k \in 1..Len(g.nodes) : g.nodes[k].id = id]

\* a ranking that returns one item more than topK
RankedOneMore(g, rerankedNodes, topK) ==
  LET top == Slice(SortByScore(rerankedNodes), topK + 1)
  IN  [k \in 1..Len(top) |->
         [id |-> NodeOf(g, top[k].id).id, content |-> NodeOf(g, top[k].id).content,
          metadata |-> NodeOf(g, top[k].id).metadata, score |-> top[k].score]]

\* lines 264-272: the value query returns
Ranked(g, rerankedNodes, topK) ==
  LET top == Slice(SortByScore(rerankedNodes), topK)
  IN  [k \in 1..Len(top) |->
         [id |-> NodeOf(g, top[k].id).id, content |-> NodeOf(g, top[k].id).content,
          metadata |-> NodeOf(g, top[k].id).metadata, score |-> top[k].score]]

(***************************************************************************)
(* The graph cache and the inputs of the tool.                             *)
(***************************************************************************)
CACHE_TTL_MS == 30 * 60 * 1000
TickMs == CACHE_TTL_MS \div TicksPerTTL

\* index names: the first is a prefix of the second
IndexNames == {<<"v">>, <<"v", "2">>}
\* similarity thresholds, in tenths
Thresholds == {7, 8}
\* query embeddings handed to execute: one of the right dimension, one too short
Queries == {Pad(1, 0), ShortVector}

\* String(threshold) for a threshold between 0 and 1 given in tenths
NumberToString(t) ==
  IF t = 0 THEN <<"0">>
  ELSE IF t = 10 THEN <<"1">>
  ELSE <<"0", ".", Digits[t + 1]>>

\* `${indexName}_${threshold}`
CacheKey(indexName, threshold) == indexName \o <<"_">> \o NumberToString(threshold)

\* key.startsWith(prefix)
StartsWith(key, prefix) ==
  Len(prefix) <= Len(key) /\ SubSeq(key, 1, Len(prefix)) = prefix

EmptyMap == [k \in {} |-> 0]

\* a set that keeps the entry already under the key
CacheSetIfAbsent(cache, key, entry) ==
  [k \in DOMAIN cache \cup {key} |-> IF k \in DOMAIN cache THEN cache[k] ELSE entry]

\* a set that keeps the createdAt of the entry already under the key
CacheSetKeepCreatedAt(cache, key, entry) ==
  [k \in DOMAIN cache \cup {key} |->
     IF k # key THEN cache[k]
     ELSE IF key \in DOMAIN cache THEN [entry EXCEPT !.createdAt = cache[key].createdAt]
     ELSE entry]

\* graphCache.set(key, entry)
CacheSet(cache, key, entry) ==
  [k \in DOMAIN cache \cup {key} |-> IF k = key THEN entry ELSE cache[k]]

\* a validity test without the TTL
IsCacheValidNoTTL(cache, key, rebuildGraph, now) ==
  key \in DOMAIN cache /\ ~rebuildGraph

\* a validity test that still serves an entry whose age is the TTL
IsCacheValidInclusive(cache, key, rebuildGraph, now) ==
  /\ key \in DOMAIN cache
  /\ ~rebuildGraph
  /\ now - cache[key].createdAt <= CACHE_TTL_MS

\* lines 368-371: cachedGraph && !rebuildGraph && now - createdAt < CACHE_TTL_MS
IsCacheValid(cache, key, rebuildGraph, now) ==
  /\ key \in DOMAIN cache
  /\ ~rebuildGraph
  /\ now - cache[key].createdAt < CACHE_TTL_MS

\* a hit that refreshes createdAt (a sliding TTL)
CacheAfterHitSliding(cache, key, now) ==
  [cache EXCEPT ![key].createdAt = now]

\* the cache after the branch of a hit (lines 373-381), which writes nothing
CacheAfterHit(cache, key, now) == cache

\* the entry of lines 432-437
NewEntry(graph, indexName, now) ==
  [graph |-> graph, indexName |-> indexName, createdAt |-> now,
   nodeCount |-> getNodeCount(graph)]

\* a clear that removes only the keys made of the name and one threshold
ClearedCacheExactName(cache, indexName) ==
  IF indexName # <<>>
  THEN [k \in {key \in DOMAIN cache :
                 \A t \in Thresholds : key # CacheKey(indexName, t)} |-> cache[k]]
  ELSE EmptyMap

\* clearGraphCache(indexName): an absent argument and '' are both falsy
ClearedCache(cache, indexName) ==
  IF indexName # <<>>
  THEN [k \in {key \in DOMAIN cache : ~StartsWith(key, indexName)} |-> cache[k]]
  ELSE EmptyMap

\* the rows pgVector.query returns for a list of stored embeddings
ResultsOf(embs) ==
  [k \in 1..Len(embs) |->
     [has |-> embs[k].has, vector |-> embs[k].vector, metadata |-> [text |-> Digits[k]]]]

\* lines 416-419
ChunksOf(graphResults) ==
  [k \in 1..Len(graphResults) |->
     [text |-> graphResults[k].metadata.text, metadata |-> graphResults[k].metadata]]

\* lines 421-423: result.vector || []
EmbeddingsOf(graphResults) ==
  [k \in 1..Len(graphResults) |->
     Emb(IF graphResults[k].has THEN graphResults[k].vector ELSE <<>>)]

\* candidate lists the vector store returns in the cache protocol
Catalogue ==
  { ResultsOf(<<>>),
    ResultsOf(<<Emb(Pad(3, 4)), Emb(Pad(4, 3))>>),
    ResultsOf(<<Emb(Pad(1, 0)), Emb(Pad(4, 3)), Emb(Pad(0, 0))>>),
    ResultsOf(<<Emb(Pad(3, 4)), NoVector>>) }

VARIABLES
  graphCache,   \* the Map graphCache: cache key -> entry
  clock,        \* the system clock, in ms
  req,          \* the requests suspended at pgVector.query: a bag of their inputs and locals
  nextOid,      \* identity of the next GraphRAG object constructed
  lastCall,     \* the request that ended, or the clear that ran, in the last step
  store,        \* the candidate lists the vector store may return
  unit,         \* a GraphRAG object driven directly: createGraph, then query
  hybrid        \* a call of the hybrid query tool or of one of its helper functions

vars == <<graphCache, clock, req, nextOid, lastCall, store, unit, hybrid>>

NoGraph == 0
\* what a request found under its key at its lookup
NoEntry == [present |-> FALSE, oid |-> NoGraph, createdAt |-> 0]
SeenEntry(cache, key) ==
  IF key \in DOMAIN cache
  THEN [present |-> TRUE, oid |-> cache[key].graph.oid, createdAt |-> cache[key].createdAt]
  ELSE NoEntry

\* the inputs and locals of a request as they stand after line 371
Started(indexName, threshold, rebuildGraph, query, now, seen) ==
  [indexName |-> indexName, threshold |-> threshold,
   rebuildGraph |-> rebuildGraph, query |-> query, now |-> now, seen |-> seen]

NoRequest == Started(<<>>, 0, FALSE, <<>>, 0, NoEntry)

\* what a request returned or threw.  built: the request completed createGraph;
\* candidates: the number of rows its pgVector.query returned
NoOut == [returned |-> FALSE, cacheHit |-> FALSE, graph |-> NoGraph,
          nodeCount |-> 0, edgeCount |-> FracOfInt(0), error |-> "none",
          built |-> FALSE, candidates |-> 0]

\* the return value of lines 475-484, but for relevantContext and sources, which
\* are made of the ranking query returns (QueryReturn)
Returned(g, cacheHit, built, candidates) ==
  [returned |-> TRUE, cacheHit |-> cacheHit, graph |-> g.oid,
   nodeCount |-> getNodeCount(g), edgeCount |-> getEdgeCount(g),
   error |-> "none", built |-> built, candidates |-> candidates]

\* the return value of lines 403-412, whole
ReturnedEmpty ==
  [returned |-> TRUE, cacheHit |-> FALSE, graph |-> NoGraph,
   nodeCount |-> 0, edgeCount |-> FracOfInt(0), error |-> "none",
   built |-> FALSE, candidates |-> 0,
   relevantContext |-> <<>>, sources |-> <<>>, buildTimeMs |-> 0]

\* the error the catch block rethrows
Thrown(msg, built, candidates) ==
  [NoOut EXCEPT !.error = msg, !.built = built, !.candidates = candidates]

\* the last step: a request that ended, with what it returned or threw; a call
\* of clearGraphCache, with its argument; or any other step
Call(op, name, request, out) == [op |-> op, name |-> name, req |-> request, out |-> out]
OtherStep == Call("other", <<>>, NoRequest, NoOut)
Ended(request, out) == Call("end", <<>>, request, out)

(***************************************************************************)
(* execute, first part (lines 361-389): the clock is read, the cache is    *)
(* looked up and, on a hit, the graph is queried and the result returned   *)
(* in the same synchronous run.  On a miss the handler suspends at         *)
(* pgVector.query.  limit bounds the requests in flight.                   *)
(***************************************************************************)
ExecuteHit(limit, indexName, threshold, rebuildGraph, query) ==
  LET cacheKey == CacheKey(indexName, threshold)
      now == clock
  IN  /\ BagCardinality(req) < limit
      /\ IsCacheValid(graphCache, cacheKey, rebuildGraph, now)
      /\ graphCache' = CacheAfterHit(graphCache, cacheKey, now)
      /\ LET graphRAG == graphCache'[cacheKey].graph
             qe == QueryError(graphRAG, query)
         IN  lastCall' = Ended(Started(indexName, threshold, rebuildGraph, query, now,
                                       SeenEntry(graphCache, cacheKey)),
                               IF qe = "none" THEN Returned(graphRAG, TRUE, FALSE, 0)
                               ELSE Thrown(qe, FALSE, 0))
      /\ UNCHANGED <<clock, req, nextOid, store, unit, hybrid>>

ExecuteMiss(limit, indexName, threshold, rebuildGraph, query) ==
  LET cacheKey == CacheKey(indexName, threshold)
      now == clock
  IN  /\ BagCardinality(req) < limit
      /\ ~IsCacheValid(graphCache, cacheKey, rebuildGraph, now)
      /\ req' = req (+) SetToBag({Started(indexName, threshold, rebuildGraph, query, now,
                                          SeenEntry(graphCache, cacheKey))})
      /\ lastCall' = OtherStep
      /\ UNCHANGED <<graphCache, clock, nextOid, store, unit, hybrid>>

(***************************************************************************)
(* execute, second part (lines 391-494): the pgVector.query of a suspended *)
(* request settles and the handler runs to its end.                        *)
(***************************************************************************)
\* the requests in flight
InFlight == BagToSet(req)
\* the requests in flight once r has ended
Without(r) == req (-) SetToBag({r})

\* pgVector.query rejects: the catch block rethrows
FetchThrows(r) ==
  /\ req' = Without(r)
  /\ lastCall' = Ended(r, Thrown("UpstreamError", FALSE, 0))
  /\ UNCHANGED <<graphCache, clock, nextOid, store, unit, hybrid>>

\* a handler without the early return: createGraph is given the empty lists
FetchEmptyBuilds(r, graphResults) ==
  /\ Len(graphResults) = 0
  /\ req' = Without(r)
  /\ lastCall' = Ended(r, Thrown(createGraph(NewGraphRAG(nextOid, EmbeddingDimension,
                                                         r.threshold),
                                             ChunksOf(graphResults),
                                             EmbeddingsOf(graphResults)).err,
                                 FALSE, 0))
  /\ UNCHANGED <<graphCache, clock, nextOid, store, unit, hybrid>>

\* lines 399-413: no candidates
FetchEmpty(r, graphResults) ==
  /\ Len(graphResults) = 0
  /\ req' = Without(r)
  /\ lastCall' = Ended(r, ReturnedEmpty)
  /\ UNCHANGED <<graphCache, clock, nextOid, store, unit, hybrid>>

\* the GraphRAG object of lines 426-427 and the error createGraph throws, if any
BuiltGraph(oid, threshold, graphResults) ==
  createGraph(NewGraphRAG(oid, EmbeddingDimension, threshold),
              ChunksOf(graphResults), EmbeddingsOf(graphResults))

\* lines 415-427, createGraph throws: nothing is written
BuildThrows(r, graphResults) ==
  /\ Len(graphResults) > 0
  /\ nextOid <= MaxGraphs
  /\ LET b == BuiltGraph(nextOid, r.threshold, graphResults)
     IN  /\ b.err # "none"
         /\ lastCall' = Ended(r, Thrown(b.err, FALSE, Len(graphResults)))
  /\ req' = Without(r)
  /\ nextOid' = nextOid + 1
  /\ UNCHANGED <<graphCache, clock, store, unit, hybrid>>

\* lines 415-484: the graph is built, cached under the key, queried and returned
BuildStores(r, graphResults) ==
  /\ Len(graphResults) > 0
  /\ nextOid <= MaxGraphs
  /\ LET b == BuiltGraph(nextOid, r.threshold, graphResults)
         cacheKey == CacheKey(r.indexName, r.threshold)
         qe == QueryError(b.graph, r.query)
     IN  /\ b.err = "none"
         /\ graphCache' = CacheSet(graphCache, cacheKey,
                                   NewEntry(b.graph, r.indexName, r.now))
         /\ lastCall' = Ended(r, IF qe = "none"
                                 THEN Returned(b.graph, FALSE, TRUE, Len(graphResults))
                                 ELSE Thrown(qe, TRUE, Len(graphResults)))
  /\ req' = Without(r)
  /\ nextOid' = nextOid + 1
  /\ UNCHANGED <<clock, store, unit, hybrid>>

\* time passes
Tick ==
  /\ clock < MaxTicks * TickMs
  /\ clock' = clock + TickMs
  /\ lastCall' = OtherStep
  /\ UNCHANGED <<graphCache, req, nextOid, store, unit, hybrid>>

\* clearGraphCache(indexName); <<>> is a call without argument
ClearGraphCache(indexName) ==
  /\ graphCache' = ClearedCache(graphCache, indexName)
  /\ lastCall' = Call("clear", indexName, NoRequest, NoOut)
  /\ UNCHANGED <<clock, req, nextOid, store, unit, hybrid>>

(***************************************************************************)
(* A GraphRAG object driven directly.                                      *)
(***************************************************************************)
UnitOff == [pc |-> "off", chunks |-> <<>>, embeddings |-> <<>>, threshold |-> 7,
            graph |-> NewGraphRAG(0, EmbeddingDimension, 7), err |-> "none",
            query |-> <<>>]

\* chunks of the given number
ChunksOfLen(n) == [k \in 1..n |-> [text |-> Digits[k], metadata |-> [text |-> Digits[k]]]]

UnitCreateGraph ==
  /\ unit.pc = "new"
  /\ LET b == createGraph(unit.graph, unit.chunks, unit.embeddings)
     IN  unit' = [unit EXCEPT !.pc = IF b.err = "none" THEN "built" ELSE "failed",
                              !.graph = b.graph, !.err = b.err]
  /\ lastCall' = OtherStep
  /\ UNCHANGED <<graphCache, clock, req, nextOid, store, hybrid>>

UnitQuery(query) ==
  /\ unit.pc = "built"
  /\ unit' = [unit EXCEPT !.pc = "queried", !.query = query,
                           !.err = QueryError(unit.graph, query)]
  /\ lastCall' = OtherStep
  /\ UNCHANGED <<graphCache, clock, req, nextOid, store, hybrid>>

(***************************************************************************)
(* cosineSimilarity called directly (lines 105-132).  An argument is a     *)
(* vector or is missing.  The components are small integers; the pairs of  *)
(* the model are those whose product of squared norms is a perfect square, *)
(* for which Math.sqrt is exact.                                           *)
(***************************************************************************)
CosineArguments ==
  {Emb(v) : v \in UNION {[1..d -> {-1, 0, 1, 2}] :
                           d \in {EmbeddingDimension - 1, EmbeddingDimension}}}
    \cup {NoVector}

SquaredNorm(v) == SumSeq([i \in 1..Len(v) |-> v[i] * v[i]])

ExactPair(a, b) ==
  LET product == SquaredNorm(a.vector) * SquaredNorm(b.vector)
  IN  Sqrt(product) * Sqrt(product) = product

\* a call of cosineSimilarity: its arguments and what it returned or threw
CosineCall(vec1, vec2) ==
  [pc |-> "cosine", vec1 |-> vec1, vec2 |-> vec2, result |-> FracOfInt(0),
   err |-> "none"]

UnitCosine ==
  /\ unit.pc = "cosine"
  /\ unit' =
       IF ~unit.vec1.has \/ ~unit.vec2.has
       THEN [unit EXCEPT !.pc = "thrown", !.err = "Vectors must not be null or undefined"]
       ELSE IF CosineThrows(unit.vec1.vector, unit.vec2.vector)
       THEN [unit EXCEPT !.pc = "thrown", !.err = "Vector dimensions must match"]
       ELSE [unit EXCEPT !.pc = "returned",
                         !.result = cosineSimilarity(unit.vec1.vector, unit.vec2.vector)]
  /\ lastCall' = OtherStep
  /\ UNCHANGED <<graphCache, clock, req, nextOid, store, hybrid>>

(***************************************************************************)
(* query on the GraphRAG object driven directly (lines 224-273), one       *)
(* action per iteration of a walk so that the walker can be observed.      *)
(***************************************************************************)
\* restartProb as handed to query: the default 0.15 and never
RestartProbs == {Frac(15, 100), FracOfInt(0)}

\* the locals of query before the call
NoQuery ==
  [query |-> <<>>, topK |-> 0, randomWalkSteps |-> 0, restartProb |-> FracOfInt(0),
   topNodes |-> <<>>, seed |-> 0, walk |-> WalkStart(""), walks |-> <<>>,
   rerankedNodes |-> <<>>, result |-> <<>>]

\* lines 230-246: the dimension check, the similarities, the seeds
QueryStart(query, topK, randomWalkSteps, restartProb) ==
  /\ unit.pc \in {"new", "built"}
  /\ LET qe == QueryError(unit.graph, query)
         topNodes == Slice(SortBySimilarity(Similarities(unit.graph, query)), topK)
     IN  unit' =
           IF qe # "none"
           THEN [unit EXCEPT !.pc = "queried", !.err = qe, !.q.query = query]
           ELSE [unit EXCEPT
                   !.pc = "walking",
                   !.q = [NoQuery EXCEPT
                            !.query = query, !.topK = topK,
                            !.randomWalkSteps = randomWalkSteps,
                            !.restartProb = restartProb,
                            !.topNodes = topNodes, !.seed = 1,
                            !.walk = IF Len(topNodes) > 0
                                     THEN WalkStart(topNodes[1].id)
                                     ELSE WalkStart("")]]
  /\ lastCall' = OtherStep
  /\ UNCHANGED <<graphCache, clock, req, nextOid, store, hybrid>>

\* the walk of the current seed is under way
Walking == unit.pc = "walking" /\ unit.q.seed <= Len(unit.q.topNodes)

\* one iteration of the loop of randomWalkWithRestart
WalkStep(random1, random2) ==
  /\ Walking
  /\ unit.q.walk.step < unit.q.randomWalkSteps
  /\ unit' = [unit EXCEPT !.q.walk =
                WalkIteration(unit.graph, unit.q.topNodes[unit.q.seed].id,
                              unit.q.restartProb, @, random1, random2)]
  /\ lastCall' = OtherStep
  /\ UNCHANGED <<graphCache, clock, req, nextOid, store, hybrid>>

\* lines 213-220 and 252-260: the walk returns its normalised visits, which are
\* fused into the scores; the next seed's walk begins
WalkEnd ==
  /\ Walking
  /\ unit.q.walk.step >= unit.q.randomWalkSteps
  /\ LET seed == unit.q.topNodes[unit.q.seed]
         walkScores == NormalizedVisits(unit.q.walk.visits)
     IN  unit' = [unit EXCEPT
                    !.q.rerankedNodes = Fuse(@, seed.similarity, walkScores),
                    !.q.walks = Append(@, [id |-> seed.id,
                                           similarity |-> seed.similarity,
                                           visits |-> unit.q.walk.visits,
                                           walkScores |-> walkScores]),
                    !.q.seed = @ + 1,
                    !.q.walk = IF unit.q.seed < Len(unit.q.topNodes)
                               THEN WalkStart(unit.q.topNodes[unit.q.seed + 1].id)
                               ELSE WalkStart("")]
  /\ lastCall' = OtherStep
  /\ UNCHANGED <<graphCache, clock, req, nextOid, store, hybrid>>

\* lines 263-272: every seed has been walked; query returns
QueryReturn ==
  /\ unit.pc = "walking"
  /\ unit.q.seed > Len(unit.q.topNodes)
  /\ unit' = [unit EXCEPT !.pc = "queried",
                           !.q.result = Ranked(unit.graph, unit.q.rerankedNodes,
                                               unit.q.topK)]
  /\ lastCall' = OtherStep
  /\ UNCHANGED <<graphCache, clock, req, nextOid, store, hybrid>>

(***************************************************************************)
(* execute with its filter and maxGraphNodes, and with the ranking of the  *)
(* cached graph observed.  The store honours the filter and the topK of a  *)
(* fetch.  A cache hit runs from the lookup (lines 361-381) through query  *)
(* (lines 448-454) to the return without suspending: the run is the        *)
(* actions ExecuteHitBegin, QueryStart, WalkStep, WalkEnd and QueryReturn  *)
(* on unit, and no other request takes a step in between.                  *)
(***************************************************************************)
\* filters on metadata: none, one that the second row meets, one that no row meets
RowFilters == {EmptyMap, [text |-> "1"], [text |-> "9"]}
RowMatches(row, filter) == \A f \in DOMAIN filter : row.metadata[f] = filter[f]
\* what pgVector.query returns of the stored rows for the request r
Fetched(r, rows) ==
  Slice(SelectSeq(rows, LAMBDA row : RowMatches(row, r.filter)), r.maxGraphNodes)

\* the inputs and locals of a request with its filter and maxGraphNodes
StartedWith(filter, maxGraphNodes, indexName, threshold, rebuildGraph, now, seen) ==
  Started(indexName, threshold, rebuildGraph, Pad(1, 0), now, seen)
    @@ [filter |-> filter, maxGraphNodes |-> maxGraphNodes]

\* no request is in its synchronous run
HitIdle ==
  [pc |-> "idle", chunks |-> <<>>, embeddings |-> <<>>, threshold |-> 7,
   graph |-> NewGraphRAG(0, EmbeddingDimension, 7), err |-> "none", query |-> <<>>,
   q |-> NoQuery, cacheHit |-> FALSE,
   request |-> StartedWith(EmptyMap, 0, <<>>, 0, FALSE, 0, NoEntry)]

NoRun == unit.pc \in {"idle", "queried"}

\* a hit that fetches all the same
ExecuteHitBeginFetching(filter, maxGraphNodes, indexName, threshold, rebuildGraph) ==
  LET cacheKey == CacheKey(indexName, threshold)
      now == clock
      request == StartedWith(filter, maxGraphNodes, indexName, threshold, rebuildGraph,
                             now, SeenEntry(graphCache, cacheKey))
  IN  /\ NoRun
      /\ IsCacheValid(graphCache, cacheKey, rebuildGraph, now)
      /\ graphCache' = CacheAfterHit(graphCache, cacheKey, now)
      /\ unit' = [HitIdle EXCEPT !.pc = "built", !.graph = graphCache'[cacheKey].graph,
                                 !.threshold = threshold, !.cacheHit = TRUE,
                                 !.request = request]
      /\ req' = req (+) SetToBag({request})
      /\ lastCall' = OtherStep
      /\ UNCHANGED <<clock, nextOid, store, hybrid>>

\* lines 361-381, the cache is valid: graphRAG is the cached graph
ExecuteHitBegin(filter, maxGraphNodes, indexName, threshold, rebuildGraph) ==
  LET cacheKey == CacheKey(indexName, threshold)
      now == clock
  IN  /\ NoRun
      /\ IsCacheValid(graphCache, cacheKey, rebuildGraph, now)
      /\ graphCache' = CacheAfterHit(graphCache, cacheKey, now)
      /\ unit' = [HitIdle EXCEPT
                    !.pc = "built", !.graph = graphCache'[cacheKey].graph,
                    !.threshold = threshold, !.cacheHit = TRUE,
                    !.request = StartedWith(filter, maxGraphNodes, indexName, threshold,
                                            rebuildGraph, now,
                                            SeenEntry(graphCache, cacheKey))]
      /\ lastCall' = OtherStep
      /\ UNCHANGED <<clock, req, nextOid, store, hybrid>>

\* lines 361-396, the cache is not valid: the handler suspends at pgVector.query
ExecuteMissFiltered(filter, maxGraphNodes, indexName, threshold, rebuildGraph) ==
  LET cacheKey == CacheKey(indexName, threshold)
      now == clock
  IN  /\ NoRun
      /\ BagCardinality(req) < 1
      /\ ~IsCacheValid(graphCache, cacheKey, rebuildGraph, now)
      /\ req' = req (+) SetToBag({StartedWith(filter, maxGraphNodes, indexName, threshold,
                                              rebuildGraph, now,
                                              SeenEntry(graphCache, cacheKey))})
      /\ unit' = HitIdle
      /\ lastCall' = OtherStep
      /\ UNCHANGED <<graphCache, clock, nextOid, store, hybrid>>

(***************************************************************************)
(* The three-node example: a graph put together with addNode and addEdge.  *)
(* A, B and C have the similarities 0.9, 0.1 and 0.05 to the query         *)
(* embedding (1, 0, 0, 0, 0); A and B are joined with the weight 0.95.     *)
(***************************************************************************)
ExampleQuery == <<1, 0, 0, 0, 0>>

ExampleNode(id, vector) ==
  [id |-> id, content |-> id, embedding |-> Emb(vector), metadata |-> [text |-> id]]

\* new GraphRAG(5, 0.7), addNode(A), addNode(B), addNode(C), addEdge(A - B, 0.95)
ExampleGraph ==
  LET g0 == NewGraphRAG(0, 5, 7)
      g1 == AddNode(g0, ExampleNode("A", <<9, 3, 3, 1, 0>>)).graph
      g2 == AddNode(g1, ExampleNode("B", <<1, 9, 3, 3, 0>>)).graph
      g3 == AddNode(g2, ExampleNode("C", <<1, 19, 6, 1, 1>>)).graph
  IN  AddEdge(g3, [source |-> "A", target |-> "B", weight |-> Frac(95, 100),
                   type |-> "semantic"]).graph

\* the caller builds the example graph
UnitBuildExample ==
  /\ unit.pc = "new"
  /\ unit' = [unit EXCEPT !.pc = "built", !.graph = ExampleGraph]
  /\ lastCall' = OtherStep
  /\ UNCHANGED <<graphCache, clock, req, nextOid, store, hybrid>>

(***************************************************************************)
(* The hybrid query tool (youtube-hybrid-vector-query).  Numbers.  A       *)
(* JavaScript number is a reduced fraction <<num, den>> with den > 0, or   *)
(* NaN, written <<0, 0>>.  Arithmetic with NaN gives NaN and every         *)
(* comparison with NaN is false.  Times are counted in days, so that the   *)
(* division by 1000 * 60 * 60 * 24 of line 211 is the change of unit from  *)
(* the milliseconds of getTime to the days of the model.                   *)
(***************************************************************************)
NaN == <<0, 0>>
IsNaN(x) == x[2] = 0
NumAdd(x, y) == IF IsNaN(x) \/ IsNaN(y) THEN NaN ELSE FracAdd(x, y)
NumSub(x, y) == IF IsNaN(x) \/ IsNaN(y) THEN NaN ELSE FracSub(x, y)
NumMul(x, y) == IF IsNaN(x) \/ IsNaN(y) THEN NaN ELSE FracMul(x, y)
\* x / y for y other than 0 and NaN
NumDiv(x, y) == IF IsNaN(x) THEN NaN ELSE Frac(x[1] * y[2], x[2] * y[1])
NumGT(x, y) == ~IsNaN(x) /\ ~IsNaN(y) /\ FracLT(y, x)
\* Math.max and Math.min of two numbers: NaN when either is NaN
MathMax(x, y) == IF IsNaN(x) \/ IsNaN(y) THEN NaN ELSE FracMax(x, y)
MathMin(x, y) == IF IsNaN(x) \/ IsNaN(y) THEN NaN ELSE FracMin(x, y)

\* Math.log10 of a power of ten
RECURSIVE Log10(_)
Log10(n) == IF n < 10 THEN 0 ELSE 1 + Log10(n \div 10)

(***************************************************************************)
(* Strings are sequences of characters.                                    *)
(***************************************************************************)
\* String.prototype.toLowerCase on the letters of the model
LowerChar(c) ==
  CASE c = "A" -> "a"
    [] c = "I" -> "i"
    [] c = "M" -> "m"
    [] OTHER -> c
toLowerCase(s) == [i \in DOMAIN s |-> LowerChar(s[i])]

\* s.split(/\s+/): the pieces between the maximal runs of white space.  A run
\* at the start or at the end of s leaves an empty piece before or after it,
\* and the empty string gives the one empty piece
RECURSIVE SplitFrom(_, _, _, _)
SplitFrom(s, i, piece, pieces) ==
  IF i > Len(s) THEN Append(pieces, piece)
  ELSE IF s[i] = " "
       THEN IF i > 1 /\ s[i - 1] = " "
            THEN SplitFrom(s, i + 1, piece, pieces)
            ELSE SplitFrom(s, i + 1, <<>>, Append(pieces, piece))
       ELSE SplitFrom(s, i + 1, Append(piece, s[i]), pieces)
Split(s) == SplitFrom(s, 1, <<>>, <<>>)

\* s.includes(t): t occurs in s; the empty string occurs in every string
Includes(s, t) ==
  \E i \in 0..(Len(s) - Len(t)) : \A j \in 1..Len(t) : s[i + j] = t[j]

(***************************************************************************)
(* calculateHybridScore (lines 201-233).  metadata is a record that has    *)
(* the fields the stored item has: a field it lacks reads as undefined.    *)
(* now is the value of new Date() at line 207.                             *)
(***************************************************************************)
\* the time value of new Date(s) for the date strings of the model, in days
\* from 2024-01-01; any other string is not a date
DateParse(s) ==
  CASE s = "2024-01-01" -> FracOfInt(0)
    [] s = "2025-01-01" -> FracOfInt(366)
    [] s = "2025-10-20" -> FracOfInt(658)
    [] s = "2026-01-01" -> FracOfInt(731)
    [] s = "2026-03-15" -> FracOfInt(804)
    [] OTHER -> NaN

\* new Date(metadata.publishedAt).getTime(): new Date(undefined) is an
\* invalid date, whose time value is NaN
PublishedTime(metadata) ==
  IF "publishedAt" \in DOMAIN metadata THEN DateParse(metadata.publishedAt) ELSE NaN

\* lines 210-212
FreshnessScore(metadata, now) ==
  LET daysSincePublished == NumSub(now, PublishedTime(metadata))
  IN  MathMax(FracOfInt(0), NumSub(FracOfInt(1), NumDiv(daysSincePublished, FracOfInt(365))))

\* lines 215-216
PopularityScore(metadata) ==
  LET viewCount == IF "viewCount" \in DOMAIN metadata THEN metadata.viewCount ELSE 0
  IN  IF viewCount > 0
      THEN MathMin(FracOfInt(1), Frac(Log10(viewCount + 1), 6))
      ELSE FracOfInt(0)

\* line 219
QueryWords(queryText) == Split(toLowerCase(queryText))
\* line 220
LowerTags(metadata) ==
  LET tags == IF "tags" \in DOMAIN metadata THEN metadata.tags ELSE <<>>
  IN  [i \in DOMAIN tags |-> toLowerCase(tags[i])]
\* the predicate of lines 221-223: some tag contains the word or is contained in it
TagMatches(tags, word) ==
  \E i \in DOMAIN tags : Includes(tags[i], word) \/ Includes(word, tags[i])
\* lines 219-224
TagScore(metadata, queryText) ==
  LET queryWords == QueryWords(queryText)
      tags == LowerTags(metadata)
      tagMatches == Len(SelectSeq(queryWords, LAMBDA word : TagMatches(tags, word)))
  IN  IF Len(queryWords) > 0 THEN Frac(tagMatches, Len(queryWords)) ELSE FracOfInt(0)

\* lines 227-232
WeightedSum(weights, vectorScore, freshnessScore, popularityScore, tagScore) ==
  NumAdd(NumAdd(NumAdd(NumMul(weights.vector, vectorScore),
                       NumMul(weights.freshness, freshnessScore)),
                NumMul(weights.popularity, popularityScore)),
         NumMul(weights.tags, tagScore))

calculateHybridScore(vectorScore, metadata, queryText, weights, now) ==
  WeightedSum(weights, vectorScore, FreshnessScore(metadata, now),
              PopularityScore(metadata), TagScore(metadata, queryText))

(***************************************************************************)
(* buildFilterQuery (lines 80-198).  A JavaScript value is a record of its *)
(* type and its content: the characters of a string, the integer of a      *)
(* number, the items of an array, the entries (key and value, in insertion *)
(* order) of an object.  A filter is an object.  The query text is a       *)
(* sequence of pieces of text whose concatenation is the string the code   *)
(* builds.  A TypeError the code throws is the err field of the result.    *)
(***************************************************************************)
JStr(s) == [type |-> "string", val |-> s]
JNum(n) == [type |-> "number", val |-> n]
JBool(b) == [type |-> "boolean", val |-> b]
JArr(items) == [type |-> "array", val |-> items]
JObj(entries) == [type |-> "object", val |-> entries]
JNull == [type |-> "null", val |-> <<>>]
JUndefined == [type |-> "undefined", val |-> <<>>]
Entry(key, value) == [key |-> key, value |-> value]

\* the decimal digits of a natural number
RECURSIVE DecimalOf(_)
DecimalOf(n) ==
  IF n < 10 THEN <<Digits[n + 1]>> ELSE Append(DecimalOf(n \div 10), Digits[(n % 10) + 1])

\* array.join(separator) on sequences of pieces of text
RECURSIVE Join(_, _)
Join(array, separator) ==
  IF Len(array) = 0 THEN <<>>
  ELSE IF Len(array) = 1 THEN array[1]
  ELSE array[1] \o separator \o Join(Tail(array), separator)

\* String(v), also the conversion of ${v} in a template literal
RECURSIVE StringOf(_)
StringOf(v) ==
  CASE v.type = "string" -> v.val
    [] v.type = "number" ->
         IF v.val < 0 THEN <<"-">> \o DecimalOf(-v.val) ELSE DecimalOf(v.val)
    [] v.type = "boolean" ->
         IF v.val THEN <<"t", "r", "u", "e">> ELSE <<"f", "a", "l", "s", "e">>
    [] v.type = "array" ->
         Join([i \in DOMAIN v.val |->
                 IF v.val[i].type \in {"null", "undefined"} THEN <<>>
                 ELSE StringOf(v.val[i])], <<",">>)
    [] v.type = "object" ->
         <<"[", "o", "b", "j", "e", "c", "t", " ", "O", "b", "j", "e", "c", "t", "]">>
    [] v.type = "null" -> <<"n", "u", "l", "l">>
    [] v.type = "undefined" -> <<"u", "n", "d", "e", "f", "i", "n", "e", "d">>

\* Object.entries(v), which throws on null and undefined; for the other
\* values: the entries of an object, the items
\* of an array and the characters of a string under their indices, nothing for
\* a number or a boolean
EntriesOf(v) ==
  CASE v.type = "object" -> v.val
    [] v.type = "array" -> [i \in DOMAIN v.val |-> Entry(IndexToString(i - 1), v.val[i])]
    [] v.type = "string" ->
         [i \in DOMAIN v.val |-> Entry(IndexToString(i - 1), JStr(<<v.val[i]>>))]
    [] OTHER -> <<>>

\* v[i] for i = 0, 1 (line 161); it throws on null and undefined
ItemAt(v, i) ==
  CASE v.type = "array" -> IF i < Len(v.val) THEN v.val[i + 1] ELSE JUndefined
    [] v.type = "string" -> IF i < Len(v.val) THEN JStr(<<v.val[i + 1]>>) ELSE JUndefined
    [] OTHER -> JUndefined

\* a field name that holds quotes and the text of a placeholder
QuotedKey == "x' = $1 OR 'a"
\* the text of a key in pieces: a quote, and a $ with the digits after it, are
\* pieces of their own
KeyText(key) ==
  IF key = QuotedKey THEN <<"x", "'", " = ", "$", "1", " OR ", "'", "a">> ELSE <<key>>
\* `metadata->>'${key}'`: the key is put between the quotes as it is
JsonPath(key) == <<"metadata->>", "'">> \o KeyText(key) \o <<"'">>
\* `CAST(${jsonPath} AS NUMERIC)`
CastNumeric(key) == <<"CAST(">> \o JsonPath(key) \o <<" AS NUMERIC)">>
\* `$${index}`
Placeholder(index) == <<"$">> \o DecimalOf(index)

\* the locals conditions, params and currentIndex of one call (lines 81-83)
Locals(paramIndex) ==
  [conditions |-> <<>>, params |-> <<>>, currentIndex |-> paramIndex, err |-> "none"]
\* conditions.push(condition); params.push(...values); currentIndex += count
Push(st, condition, values, count) ==
  [st EXCEPT !.conditions = Append(@, condition), !.params = @ \o values,
             !.currentIndex = @ + count]
Throw(st) == [st EXCEPT !.err = "TypeError"]

\* one case of the switch of lines 122-179; the switch has no default case, so
\* any other operator leaves the locals as they are
FieldOperator(key, op, val, st) ==
  LET i == st.currentIndex
  IN  CASE op = "$eq" ->
             Push(st, JsonPath(key) \o <<" = ">> \o Placeholder(i), <<JStr(StringOf(val))>>, 1)
        [] op = "$ne" ->
             Push(st, JsonPath(key) \o <<" != ">> \o Placeholder(i), <<JStr(StringOf(val))>>, 1)
        [] op = "$gt" ->
             Push(st, CastNumeric(key) \o <<" > ">> \o Placeholder(i), <<val>>, 1)
        [] op = "$gte" ->
             Push(st, CastNumeric(key) \o <<" >= ">> \o Placeholder(i), <<val>>, 1)
        [] op = "$lt" ->
             Push(st, CastNumeric(key) \o <<" < ">> \o Placeholder(i), <<val>>, 1)
        [] op = "$lte" ->
             Push(st, CastNumeric(key) \o <<" <= ">> \o Placeholder(i), <<val>>, 1)
        [] op = "$in" ->
             IF val.type # "array" THEN Throw(st)
             ELSE LET inPlaceholders == [k \in DOMAIN val.val |-> Placeholder(i + k - 1)]
                  IN  Push(st, JsonPath(key) \o <<" IN (">> \o Join(inPlaceholders, <<", ">>)
                               \o <<")">>,
                           val.val, Len(val.val))
        [] op = "$between" ->
             IF val.type \in {"null", "undefined"} THEN Throw(st)
             ELSE Push(st, CastNumeric(key) \o <<" BETWEEN ">> \o Placeholder(i)
                           \o <<" AND ">> \o Placeholder(i + 1),
                       <<ItemAt(val, 0), ItemAt(val, 1)>>, 2)
        [] op = "$contains" ->
             Push(st, JsonPath(key) \o <<" LIKE ">> \o Placeholder(i),
                  <<JStr(<<"%">> \o StringOf(val) \o <<"%">>)>>, 1)
        [] op = "$startsWith" ->
             Push(st, JsonPath(key) \o <<" LIKE ">> \o Placeholder(i),
                  <<JStr(StringOf(val) \o <<"%">>)>>, 1)
        [] op = "$endsWith" ->
             Push(st, JsonPath(key) \o <<" LIKE ">> \o Placeholder(i),
                  <<JStr(<<"%">> \o StringOf(val))>>, 1)
        [] OTHER -> st

\* Object.entries(value).forEach of lines 119-180, from entry k on
RECURSIVE FieldOperators(_, _, _, _)
FieldOperators(key, operators, k, st) ==
  IF k > Len(operators) \/ st.err # "none" THEN st
  ELSE FieldOperators(key, operators, k + 1,
                      FieldOperator(key, operators[k].key, operators[k].value, st))

RECURSIVE buildFilterQuery(_, _)

\* value.map of lines 88-93 and 99-104, from item k on: each sub-filter is
\* compiled from the current index and wrapped in parentheses
RECURSIVE SubFilters(_, _, _, _)
SubFilters(value, k, st, wrapped) ==
  IF k > Len(value) \/ st.err # "none" THEN [st |-> st, wrapped |-> wrapped]
  ELSE LET result == buildFilterQuery(value[k], st.currentIndex)
       IN  IF result.err # "none" THEN [st |-> Throw(st), wrapped |-> wrapped]
           ELSE SubFilters(value, k + 1,
                           [st EXCEPT !.currentIndex = result.nextIndex,
                                      !.params = @ \o result.params],
                           Append(wrapped, <<"(">> \o result.query \o <<")">>))

\* lines 87-107: $and and $or; value.map throws unless value is an array
Logical(value, connective, st) ==
  IF value.type # "array" THEN Throw(st)
  ELSE LET mapped == SubFilters(value.val, 1, st, <<>>)
       IN  IF mapped.st.err # "none" THEN mapped.st
           ELSE Push(mapped.st, <<"(">> \o Join(mapped.wrapped, <<connective>>) \o <<")">>,
                     <<>>, 0)

\* lines 109-115
Negation(value, st) ==
  LET result == buildFilterQuery(value, st.currentIndex)
  IN  IF result.err # "none" THEN Throw(st)
      ELSE Push([st EXCEPT !.currentIndex = result.nextIndex],
                <<"NOT (">> \o result.query \o <<")">>, result.params, 0)

\* lines 85-187.  An array, null and a primitive value take the branch of
\* simple equality
processFilter(key, value, st) ==
  CASE key = "$and" -> Logical(value, " AND ", st)
    [] key = "$or" -> Logical(value, " OR ", st)
    [] key = "$not" -> Negation(value, st)
    [] OTHER ->
         IF value.type = "object"
         THEN FieldOperators(key, value.val, 1, st)
         ELSE Push(st, JsonPath(key) \o <<" = ">> \o Placeholder(st.currentIndex),
                   <<JStr(StringOf(value))>>, 1)

\* Object.entries(filter).forEach of lines 189-191, from entry k on
RECURSIVE ProcessEntries(_, _, _)
ProcessEntries(entries, k, st) ==
  IF k > Len(entries) \/ st.err # "none" THEN st
  ELSE ProcessEntries(entries, k + 1, processFilter(entries[k].key, entries[k].value, st))

\* what a call that throws leaves its caller with
FilterThrown == [query |-> <<>>, params |-> <<>>, nextIndex |-> 0, err |-> "TypeError"]

buildFilterQuery(filter, paramIndex) ==
  IF filter.type \in {"null", "undefined"} THEN FilterThrown
  ELSE LET st == ProcessEntries(EntriesOf(filter), 1, Locals(paramIndex))
       IN  IF st.err # "none" THEN FilterThrown
           ELSE [query |-> Join(st.conditions, <<" AND ">>), params |-> st.params,
                 nextIndex |-> st.currentIndex, err |-> "none"]

(***************************************************************************)
(* The filters handed to buildFilterQuery and a direct call of it.         *)
(***************************************************************************)
TextAi == <<"a", "i">>
TextM == <<"m">>
\* the operator objects of a field: every operator of the switch, $in and
\* $between with arrays of several lengths and with values that are no arrays,
\* an operator the switch does not know, no operator, several operators
OperatorObjects ==
  { <<Entry("$eq", JStr(TextAi))>>,
    <<Entry("$eq", JNum(5))>>,
    <<Entry("$ne", JBool(TRUE))>>,
    <<Entry("$gt", JNum(1000))>>,
    <<Entry("$gte", JNum(1000))>>,
    <<Entry("$lt", JNum(1000))>>,
    <<Entry("$lte", JNum(1000))>>,
    <<Entry("$in", JArr(<<>>))>>,
    <<Entry("$in", JArr(<<JStr(TextAi), JNum(5)>>))>>,
    <<Entry("$in", JStr(TextAi))>>,
    <<Entry("$between", JArr(<<JNum(1)>>))>>,
    <<Entry("$between", JArr(<<JNum(1), JNum(1000)>>))>>,
    <<Entry("$between", JArr(<<JNum(1), JNum(5), JNum(1000)>>))>>,
    <<Entry("$between", JNum(5))>>,
    <<Entry("$between", JNull)>>,
    <<Entry("$contains", JStr(TextAi))>>,
    <<Entry("$startsWith", JStr(TextAi))>>,
    <<Entry("$endsWith", JStr(TextAi))>>,
    <<Entry("$regex", JStr(TextAi))>>,
    <<>>,
    <<Entry("$gte", JNum(5)), Entry("$lte", JNum(1000))>>,
    <<Entry("$gt", JNum(5)), Entry("$regex", JStr(TextAi))>>,
    <<Entry("$regex", JStr(TextAi)), Entry("$gt", JNum(5))>> }
\* the constraints of a field: an operator object, or a value compared for
\* equality
FieldConstraints(key) ==
  {Entry(key, JObj(operators)) : operators \in OperatorObjects}
    \cup {Entry(key, value) :
            value \in {JStr(TextAi), JNum(5), JBool(FALSE), JNull,
                       JArr(<<JStr(TextAi), JNum(5)>>)}}
\* filters of one field and of two
FlatFilters ==
  {JObj(<<c>>) : c \in FieldConstraints("viewCount") \cup FieldConstraints("category")}
    \cup {JObj(<<c1, c2>>) : c1 \in FieldConstraints("viewCount"),
                              c2 \in FieldConstraints("category")}
    \cup {JObj(<<c2, c1>>) : c1 \in FieldConstraints("viewCount"),
                              c2 \in FieldConstraints("category")}
\* the filters logical operators are applied to
BaseFilters ==
  { JObj(<<>>),
    JObj(<<Entry("viewCount", JObj(<<Entry("$gte", JNum(1000))>>))>>),
    JObj(<<Entry("category", JStr(TextAi))>>),
    JObj(<<Entry("category", JObj(<<Entry("$in", JArr(<<JStr(TextAi), JStr(TextM)>>))>>))>>),
    JObj(<<Entry("viewCount", JObj(<<Entry("$regex", JStr(TextAi))>>))>>) }
\* $not, $and and $or nested to the given depth, alone and beside a field
RECURSIVE NestedFilters(_)
NestedFilters(depth) ==
  IF depth = 0 THEN BaseFilters
  ELSE LET inner == NestedFilters(depth - 1)
       IN  inner
             \cup {JObj(<<Entry("$not", f)>>) : f \in inner}
             \cup {JObj(<<Entry("$and", JArr(<<f, g>>))>>) : f, g \in inner}
             \cup {JObj(<<Entry("$or", JArr(<<f, g>>))>>) : f, g \in inner}
             \cup {JObj(<<Entry("category", JStr(TextM)), Entry("$not", f)>>) : f \in inner}
\* logical operators on values that are no filters
MalformedFilters ==
  { JObj(<<Entry("$and", JArr(<<>>))>>),
    JObj(<<Entry("$or", JObj(<<>>))>>),
    JObj(<<Entry("$and", JArr(<<JStr(TextAi), JNum(5)>>))>>),
    JObj(<<Entry("$not", JNull)>>),
    JObj(<<Entry("$not", JNum(5))>>) }
\* filters on a field whose name holds quotes
QuotedKeyFilters ==
  { JObj(<<Entry(QuotedKey, JStr(TextAi))>>),
    JObj(<<Entry(QuotedKey, JObj(<<Entry("$gt", JNum(5))>>))>>),
    JObj(<<Entry("$not", JObj(<<Entry(QuotedKey, JStr(TextAi))>>))>>) }
Filters ==
  FlatFilters \cup NestedFilters(MaxDepth) \cup MalformedFilters \cup QuotedKeyFilters
\* the parameter index a caller starts from; 1 is the default of line 80
StartIndexes == {1, 9}

NoFilterResult == [query |-> <<>>, params |-> <<>>, nextIndex |-> 0, err |-> "none"]

\* a call of buildFilterQuery: its arguments and, after the call, what it
\* returned or threw
CompileCall(filter, paramIndex) ==
  [pc |-> "compile", filter |-> filter, paramIndex |-> paramIndex,
   result |-> NoFilterResult]

Compile ==
  /\ hybrid.pc = "compile"
  /\ hybrid' = [hybrid EXCEPT !.pc = "compiled",
                              !.result = buildFilterQuery(hybrid.filter, hybrid.paramIndex)]
  /\ UNCHANGED <<graphCache, clock, req, nextOid, lastCall, store, unit>>

(***************************************************************************)
(* The predicate a compiled query is, as the database evaluates it on the  *)
(* metadata of one row: SQL's logic of three values, "T", "F" and "N" (the *)
(* null), and "E" where the statement fails (a syntax error, a text that   *)
(* is cast to NUMERIC and is no number).  The text is read as the compiler *)
(* lays it out in lines 80-198.                                            *)
(***************************************************************************)
And3(a, b) ==
  IF "E" \in {a, b} THEN "E" ELSE IF "F" \in {a, b} THEN "F"
  ELSE IF "N" \in {a, b} THEN "N" ELSE "T"
Or3(a, b) ==
  IF "E" \in {a, b} THEN "E" ELSE IF "T" \in {a, b} THEN "T"
  ELSE IF "N" \in {a, b} THEN "N" ELSE "F"
Not3(a) == CASE a = "T" -> "F" [] a = "F" -> "T" [] OTHER -> a

\* an SQL value: a text, a number or the null
SqlNull == [kind |-> "null", val |-> <<>>]
SqlText(s) == [kind |-> "text", val |-> s]
SqlNumeric(n) == [kind |-> "numeric", val |-> n]
SqlError == [kind |-> "error", val |-> <<>>]

\* the number a text of decimal digits, with or without a sign, stands for
ParseDecimal(s) ==
  LET IsDigit(c) == \E d \in 1..10 : Digits[d] = c
      DigitValue(c) == (CHOOSE d \in 1..10 : Digits[d] = c) - 1
      body == IF Len(s) > 0 /\ s[1] = "-" THEN Tail(s) ELSE s
      N[j \in 0..Len(body)] == IF j = 0 THEN 0 ELSE 10 * N[j - 1] + DigitValue(body[j])
  IN  IF Len(body) = 0 \/ \E j \in 1..Len(body) : ~IsDigit(body[j]) THEN SqlError
      ELSE SqlNumeric(IF body = s THEN N[Len(body)] ELSE -N[Len(body)])

\* metadata->>'key' on a row: the text of the field, the null when the row has
\* no such field or the field is null
FieldText(item, key) ==
  IF key \notin DOMAIN item \/ item[key].type \in {"null", "undefined"} THEN SqlNull
  ELSE SqlText(StringOf(item[key]))

\* a parameter as the driver hands it over: null and undefined are the null
ParamText(p) == IF p.type \in {"null", "undefined"} THEN SqlNull ELSE SqlText(StringOf(p))

\* CAST(x AS NUMERIC), and a parameter compared with a NUMERIC
ToNumeric(x) == IF x.kind = "text" THEN ParseDecimal(x.val) ELSE x

\* x = y, x < y and x <= y
Compare3(x, y, op) ==
  IF "error" \in {x.kind, y.kind} THEN "E"
  ELSE IF "null" \in {x.kind, y.kind} THEN "N"
  ELSE IF CASE op = " = " -> x.val = y.val
            [] op = " != " -> x.val # y.val
            [] op = " > " -> x.val > y.val
            [] op = " >= " -> x.val >= y.val
            [] op = " < " -> x.val < y.val
            [] op = " <= " -> x.val <= y.val
       THEN "T" ELSE "F"

\* text LIKE pattern: % stands for any run of characters
RECURSIVE Like(_, _)
Like(s, pattern) ==
  IF Len(pattern) = 0 THEN Len(s) = 0
  ELSE IF pattern[1] = "%"
  THEN Like(s, Tail(pattern)) \/ (Len(s) > 0 /\ Like(Tail(s), pattern))
  ELSE Len(s) > 0 /\ (pattern[1] = "_" \/ pattern[1] = s[1]) /\ Like(Tail(s), Tail(pattern))

\* the piece at position i of the text of the statement c
Tok(c, i) == IF i <= Len(c.text) THEN c.text[i] ELSE "<end>"
Failed(c) == [v |-> "E", rest |-> Len(c.text) + 1]

\* the parameter bound to the placeholder at position i, and the position after it
ParamAt(c, i) ==
  LET IsDigit(piece) == \E d \in 1..10 : Digits[d] = piece
      n == IF i > Len(c.text) THEN 0
           ELSE CHOOSE n \in 0..(Len(c.text) - i) :
                  /\ \A j \in 1..n : IsDigit(c.text[i + j])
                  /\ i + n = Len(c.text) \/ ~IsDigit(c.text[i + n + 1])
      index == IF Tok(c, i) = "$" /\ n > 0
               THEN ParseDecimal(SubSeq(c.text, i + 1, i + n)).val - c.paramIndex + 1
               ELSE 0
  IN  [ok |-> index \in DOMAIN c.params,
       value |-> IF index \in DOMAIN c.params THEN c.params[index] ELSE JUndefined,
       rest |-> i + n + 1]

\* the placeholders of an IN list from position i on, up to the closing parenthesis
RECURSIVE InList(_, _, _, _)
InList(c, i, x, acc) ==
  LET p == ParamAt(c, i)
      v == Or3(acc, Compare3(x, ParamText(p.value), " = "))
  IN  IF ~p.ok THEN Failed(c)
      ELSE IF Tok(c, p.rest) = ")" THEN [v |-> v, rest |-> p.rest + 1]
      ELSE IF Tok(c, p.rest) = ", " THEN InList(c, p.rest + 1, x, v)
      ELSE Failed(c)

\* a condition on a field; position i holds metadata->> or CAST(
FieldCondition(c, i) ==
  LET cast == Tok(c, i) = "CAST("
      at == IF cast THEN i + 1 ELSE i
      wellFormed == /\ Tok(c, at) = "metadata->>" /\ Tok(c, at + 1) = "'"
                    /\ Tok(c, at + 3) = "'"
                    /\ cast => Tok(c, at + 4) = " AS NUMERIC)"
      text == FieldText(c.item, Tok(c, at + 2))
      x == IF cast THEN ToNumeric(text) ELSE text
      o == IF cast THEN at + 5 ELSE at + 4
      op == Tok(c, o)
      p == ParamAt(c, o + 1)
      q == ParamAt(c, p.rest + 1)
      Arg(param) == IF cast THEN ToNumeric(ParamText(param.value)) ELSE ParamText(param.value)
  IN  IF ~wellFormed THEN Failed(c)
      ELSE IF op = " IN (" /\ ~cast THEN InList(c, o + 1, x, "F")
      ELSE IF ~p.ok THEN Failed(c)
      ELSE IF op = " BETWEEN " /\ cast
      THEN IF Tok(c, p.rest) = " AND " /\ q.ok
           THEN [v |-> And3(Compare3(x, Arg(p), " >= "), Compare3(x, Arg(q), " <= ")),
                 rest |-> q.rest]
           ELSE Failed(c)
      ELSE IF op = " LIKE " /\ ~cast
      THEN [v |-> IF "null" \in {x.kind, Arg(p).kind} THEN "N"
                  ELSE IF Like(x.val, Arg(p).val) THEN "T" ELSE "F",
            rest |-> p.rest]
      ELSE IF (cast /\ op \in {" > ", " >= ", " < ", " <= "})
                \/ (~cast /\ op \in {" = ", " != "})
      THEN [v |-> Compare3(x, Arg(p), op), rest |-> p.rest]
      ELSE Failed(c)

RECURSIVE EvalQuery(_, _)
\* the members of ((q1) AND (q2) ...) or ((q1) OR (q2) ...) from position i on
RECURSIVE EvalMembers(_, _, _, _)
EvalMembers(c, i, connective, acc) ==
  LET q == EvalQuery(c, i + 1)
      v == IF Tok(c, i) = "(" /\ Tok(c, q.rest) = ")" THEN q.v ELSE "E"
      joined == CASE connective = " AND " -> And3(acc, v)
                  [] connective = " OR " -> Or3(acc, v)
                  [] OTHER -> v
      after == q.rest + 1
  IN  IF v = "E" THEN Failed(c)
      ELSE IF Tok(c, after) = ")" THEN [v |-> joined, rest |-> after + 1]
      ELSE IF Tok(c, after) \in {" AND ", " OR "}
      THEN EvalMembers(c, after + 1, Tok(c, after), joined)
      ELSE Failed(c)

\* one condition of a query, from position i on
EvalCondition(c, i) ==
  CASE Tok(c, i) = "(" -> EvalMembers(c, i + 1, "", "T")
    [] Tok(c, i) = "NOT (" ->
         LET q == EvalQuery(c, i + 1)
         IN  IF Tok(c, q.rest) = ")" THEN [v |-> Not3(q.v), rest |-> q.rest + 1]
             ELSE Failed(c)
    [] Tok(c, i) \in {"metadata->>", "CAST("} -> FieldCondition(c, i)
    [] OTHER -> Failed(c)

\* the conditions joined by AND after a condition that was evaluated to acc
RECURSIVE EvalMore(_, _)
EvalMore(c, acc) ==
  IF acc.v # "E" /\ Tok(c, acc.rest) = " AND "
  THEN LET next == EvalCondition(c, acc.rest + 1)
       IN  EvalMore(c, [v |-> And3(acc.v, next.v), rest |-> next.rest])
  ELSE acc

EvalQuery(c, i) == EvalMore(c, EvalCondition(c, i))

\* WHERE query on one row, with params bound from paramIndex on; a query
\* without text is no WHERE clause
Where(result, paramIndex, item) ==
  LET c == [text |-> result.query, params |-> result.params,
            paramIndex |-> paramIndex, item |-> item]
      q == EvalQuery(c, 1)
  IN  IF Len(result.query) = 0 THEN "T"
      ELSE IF q.rest # Len(result.query) + 1 THEN "E"
      ELSE q.v

\* the metadata of the rows a query is evaluated over
Items ==
  { [viewCount |-> JNum(1000), category |-> JStr(TextAi)],
    [viewCount |-> JNum(1), category |-> JStr(TextM)],
    [viewCount |-> JNum(1001), category |-> JStr(TextM)],
    [viewCount |-> JNum(5), category |-> JStr(TextAi)],
    [viewCount |-> JNum(999)],
    [category |-> JStr(TextAi)] }

\* the rows the statement selects: none when it fails on a row
Selected(result, paramIndex) ==
  IF \E item \in Items : Where(result, paramIndex, item) = "E" THEN {}
  ELSE {item \in Items : Where(result, paramIndex, item) = "T"}

(***************************************************************************)
(* The inputs of the hybrid query tool and a direct call of                *)
(* calculateHybridScore.                                                   *)
(***************************************************************************)
\* line 246
DefaultWeights ==
  [vector |-> Frac(6, 10), freshness |-> Frac(2, 10),
   popularity |-> Frac(15, 100), tags |-> Frac(5, 100)]
\* scoringWeights a caller supplies
WeightTuples ==
  { DefaultWeights,
    [vector |-> FracOfInt(1), freshness |-> FracOfInt(0),
     popularity |-> FracOfInt(0), tags |-> FracOfInt(1)],
    [vector |-> Frac(1, 2), freshness |-> Frac(1, 2),
     popularity |-> FracOfInt(2), tags |-> FracOfInt(0)],
    [vector |-> Frac(6, 10), freshness |-> Frac(-2, 10),
     popularity |-> Frac(15, 100), tags |-> Frac(5, 100)] }
\* similarity scores the vector store returns
VectorScores == {Frac(1, 2), Frac(9, 10)}
\* the clock at line 207: 2026-01-01
Nows == {FracOfInt(731)}
\* query texts: empty, white space only, one word, words with white space
\* before, between and after them
QueryTexts ==
  { <<>>, <<" ">>, <<" ", " ">>, <<"a", "i">>, <<"A", "I">>, <<"a", "i", " ">>,
    <<" ", "a", "i">>, <<"a", "i", " ", "m">>, <<"a", "i", " ", " ", "m">>,
    <<"m">> }
\* the metadata of stored items: each of publishedAt, viewCount and tags is
\* present or missing
Metadatas ==
  LET publishedAts == {"2024-01-01", "2025-10-20", "2026-03-15", "soon"}
      viewCounts == {0, 999, 9999999}
      tagLists == { <<>>, << <<"a", "i">> >>, << <<"M">>, <<"A", "I">> >>,
                    << <<"m", "a", "i", "l">> >> }
  IN  { [f \in fields |-> full[f]] :
          fields \in SUBSET {"publishedAt", "viewCount", "tags"},
          full \in [publishedAt : publishedAts, viewCount : viewCounts, tags : tagLists] }

HybridOff == [pc |-> "off"]

\* a call of calculateHybridScore: its arguments, the clock it reads, and after
\* the call its three metadata signals and its return value
ScoreCall(vectorScore, metadata, queryText, weights, now) ==
  [pc |-> "score", vectorScore |-> vectorScore, metadata |-> metadata,
   queryText |-> queryText, weights |-> weights, now |-> now,
   freshnessScore |-> NaN, popularityScore |-> NaN, tagScore |-> NaN,
   hybridScore |-> NaN]

Score ==
  /\ hybrid.pc = "score"
  /\ hybrid' = [hybrid EXCEPT
       !.pc = "scored",
       !.freshnessScore = FreshnessScore(hybrid.metadata, hybrid.now),
       !.popularityScore = PopularityScore(hybrid.metadata),
       !.tagScore = TagScore(hybrid.metadata, hybrid.queryText),
       !.hybridScore = calculateHybridScore(hybrid.vectorScore, hybrid.metadata,
                                            hybrid.queryText, hybrid.weights, hybrid.now)]
  /\ UNCHANGED <<graphCache, clock, req, nextOid, lastCall, store, unit>>

(***************************************************************************)
(* searchWithCustomPreset (youtube-search-presets.ts, lines 305-347): the  *)
(* options are a record of the fields the caller supplied; the function    *)
(* builds the context it hands to youtubeHybridVectorQueryTool.execute,    *)
(* which passes context.scoringWeights to calculateHybridScore as it is.   *)
(***************************************************************************)
WeightNames == {"vector", "freshness", "popularity", "tags"}
\* x || byDefault for a number x that may be missing: undefined, 0 and NaN are falsy
OrDefault(record, field, byDefault) ==
  IF field \notin DOMAIN record THEN byDefault
  ELSE IF IsNaN(record[field]) \/ record[field] = FracOfInt(0) THEN byDefault
  ELSE record[field]

\* the options of a call: indexName, and each of topK, filters, scoringWeights
\* and, within scoringWeights, each weight, supplied or omitted; a weight that
\* is supplied is 0 or 1/2
PresetOptions ==
  LET weights == UNION {[names -> {FracOfInt(0), Frac(1, 2)}] : names \in SUBSET WeightNames}
      optional == {[scoringWeights |-> w] : w \in weights} \cup {EmptyMap}
      topKs == {[topK |-> MaxTopK], EmptyMap}
      filters == {[filters |-> JObj(<<Entry("category", JStr(TextAi))>>)], EmptyMap}
  IN  {[indexName |-> <<"v">>] @@ o @@ t @@ f : o \in optional, t \in topKs, f \in filters}

\* lines 321-346: the context handed to execute
searchWithCustomPreset(query, options) ==
  LET topK == IF "topK" \in DOMAIN options THEN options.topK ELSE 10
      filters == IF "filters" \in DOMAIN options THEN options.filters ELSE JObj(<<>>)
      scoringWeights == IF "scoringWeights" \in DOMAIN options
                        THEN options.scoringWeights ELSE DefaultWeights
      completeWeights ==
        [vector |-> OrDefault(scoringWeights, "vector", Frac(6, 10)),
         freshness |-> OrDefault(scoringWeights, "freshness", Frac(2, 10)),
         popularity |-> OrDefault(scoringWeights, "popularity", Frac(15, 100)),
         tags |-> OrDefault(scoringWeights, "tags", Frac(5, 100))]
  IN  [queryText |-> query, indexName |-> options.indexName, topK |-> topK,
       includeScore |-> TRUE, filter |-> filters, scoringWeights |-> completeWeights]

\* a call of searchWithCustomPreset: its arguments and, after the call, the
\* context execute was called with
PresetCall(query, options) ==
  [pc |-> "preset", query |-> query, options |-> options,
   context |-> searchWithCustomPreset(<<>>, [indexName |-> <<>>])]

CallPreset ==
  /\ hybrid.pc = "preset"
  /\ hybrid' = [hybrid EXCEPT !.pc = "handed",
                              !.context = searchWithCustomPreset(hybrid.query,
                                                                 hybrid.options)]
  /\ UNCHANGED <<graphCache, clock, req, nextOid, lastCall, store, unit>>

(***************************************************************************)
(* youtubeHybridVectorQueryTool.execute (lines 240-364).  The handler      *)
(* suspends at embed and at pgVector.query and touches no shared state in  *)
(* between, so a request is two steps: up to the store query, and from the *)
(* rows the store returns to the response.  An optional field of the       *)
(* response is a sequence of at most one value.                            *)
(***************************************************************************)
\* a row the store returns
Row(id, score, metadata) == [id |-> id, score |-> score, metadata |-> metadata]
\* the row lists pgVector.query may return: items with every field, items
\* without publishedAt or with one that is no date, items without viewCount
HybridCatalogue ==
  { <<>>,
    << Row("a", Frac(9, 10), [publishedAt |-> "2024-01-01", viewCount |-> 999,
                              tags |-> << <<"a", "i">> >>, text |-> "t1"]),
       Row("b", Frac(1, 2), [publishedAt |-> "2025-10-20", viewCount |-> 9999999,
                             tags |-> <<>>, chapterText |-> "t2"]) >>,
    << Row("a", Frac(1, 2), [tags |-> << <<"a", "i">> >>]),
       Row("b", Frac(9, 10), [publishedAt |-> "2025-10-20", viewCount |-> 999]),
       Row("c", Frac(1, 2), [publishedAt |-> "2024-01-01", viewCount |-> 0]) >>,
    << Row("a", Frac(1, 2), [publishedAt |-> "2024-01-01"]),
       Row("b", Frac(9, 10), [publishedAt |-> "soon", text |-> "t2"]),
       Row("c", Frac(9, 10), [publishedAt |-> "2025-10-20", viewCount |-> 999]) >>,
    << Row("a", Frac(9, 10), [viewCount |-> 999]),
       Row("b", Frac(1, 2), [tags |-> << <<"M">> >>]) >>,
    << Row("a", Frac(1, 2), [publishedAt |-> "2025-10-20", tags |-> << <<"m">> >>]),
       Row("b", Frac(1, 2), [publishedAt |-> "2025-10-20", tags |-> << <<"m">> >>]),
       Row("c", Frac(9, 10), [publishedAt |-> "2025-10-20", tags |-> << <<"m">> >>]),
       Row("d", Frac(9, 10), [publishedAt |-> "2026-03-15", viewCount |-> 999]) >> }

\* the filters of the requests; JUndefined is a request without filter
RequestFilters ==
  { JUndefined,
    JObj(<<>>),
    JObj(<<Entry("category", JStr(TextAi))>>),
    JObj(<<Entry("viewCount", JObj(<<Entry("$gte", JNum(1000))>>)),
           Entry("category", JStr(TextAi))>>),
    JObj(<<Entry("viewCount", JObj(<<Entry("$regex", JStr(TextAi))>>))>>),
    JObj(<<Entry("$not", JNull)>>) }

HybridIdle ==
  [pc |-> "idle", queryText |-> <<>>, topK |-> 0, filter |-> JUndefined,
   scoringWeights |-> DefaultWeights, includeScore |-> TRUE,
   filterConditions |-> JObj(<<>>), appliedFilters |-> 0, storeTopK |-> 0,
   now |-> FracOfInt(0), scoredResults |-> <<>>, response |-> <<>>]

\* lines 241-303: the inputs are read, the filter is compiled, and the store is
\* queried for topK * 2 rows.  A filter whose compilation throws ends the
\* request in the catch block
HybridExecute(queryText, topK, filter, scoringWeights, includeScore) ==
  /\ hybrid.pc = "idle"
  /\ LET filterResult == IF filter.type = "undefined" THEN NoFilterResult
                         ELSE buildFilterQuery(filter, 1)
         applies == filter.type # "undefined" /\ filterResult.query # <<>>
         request == [HybridIdle EXCEPT !.queryText = queryText, !.topK = topK,
                       !.filter = filter, !.scoringWeights = scoringWeights,
                       !.includeScore = includeScore]
     IN  hybrid' =
           IF filterResult.err # "none"
           THEN [request EXCEPT !.pc = "thrown"]
           ELSE [request EXCEPT
                   !.pc = "fetching",
                   !.filterConditions = IF applies THEN filter ELSE JObj(<<>>),
                   !.appliedFilters = IF applies THEN Len(EntriesOf(filter)) ELSE 0,
                   !.storeTopK = topK * 2]
  /\ UNCHANGED <<graphCache, clock, req, nextOid, lastCall, store, unit>>

\* embed or pgVector.query rejects, or the connection string is not set: the
\* catch block of lines 355-363 rethrows
HybridThrows ==
  /\ hybrid.pc = "fetching"
  /\ hybrid' = [hybrid EXCEPT !.pc = "thrown"]
  /\ UNCHANGED <<graphCache, clock, req, nextOid, lastCall, store, unit>>

\* lines 312-324
ScoredResults(results, queryText, scoringWeights, now) ==
  [i \in DOMAIN results |->
     [id |-> results[i].id, score |-> results[i].score, metadata |-> results[i].metadata,
      hybridScore |-> calculateHybridScore(results[i].score, results[i].metadata,
                                           queryText, scoringWeights, now)]]

\* the comparator of line 327, b.hybridScore - a.hybridScore: negative when a
\* goes first.  With a NaN score the difference is NaN, which sort takes for 0
ComesBefore(a, b) == NumGT(a.hybridScore, b.hybridScore)

\* the comparator orders the rows consistently: no score is NaN, or the scores
\* that are numbers are all equal
ConsistentComparator(rows) ==
  \/ \A i \in DOMAIN rows : ~IsNaN(rows[i].hybridScore)
  \/ \A i, j \in DOMAIN rows :
       ~ComesBefore(rows[i], rows[j])

\* the stable sort of line 327 under a consistent comparator
RECURSIVE InsertByHybridScore(_, _)
InsertByHybridScore(sorted, row) ==
  IF sorted = <<>> THEN <<row>>
  ELSE IF ComesBefore(row, Head(sorted)) THEN <<row>> \o sorted
  ELSE <<Head(sorted)>> \o InsertByHybridScore(Tail(sorted), row)
RECURSIVE StableByHybridScore(_)
StableByHybridScore(rows) ==
  IF rows = <<>> THEN <<>>
  ELSE InsertByHybridScore(StableByHybridScore(SubSeq(rows, 1, Len(rows) - 1)),
                           rows[Len(rows)])

\* the orders of a list
Reorderings(rows) ==
  LET n == Len(rows)
  IN  { [i \in 1..n |-> rows[p[i]]] :
          p \in {f \in [1..n -> 1..n] : \A i, j \in 1..n : f[i] = f[j] => i = j} }

\* what line 327 may leave in scoredResults: the stable descending order, or,
\* when the comparator is not consistent, an order the engine chooses
SortOutcomes(rows) ==
  IF ConsistentComparator(rows) THEN {StableByHybridScore(rows)} ELSE Reorderings(rows)

\* result.metadata?.text || result.metadata?.chapterText || ''
TextOf(metadata) ==
  IF "text" \in DOMAIN metadata THEN metadata.text
  ELSE IF "chapterText" \in DOMAIN metadata THEN metadata.chapterText
  ELSE ""

\* Object.keys(filter)
KeysOf(filter) == [i \in DOMAIN EntriesOf(filter) |-> EntriesOf(filter)[i].key]

\* lines 331-338
SourceOf(result, includeScore, filter) ==
  [id |-> result.id,
   score |-> IF includeScore THEN result.score ELSE FracOfInt(0),
   hybridScore |-> IF includeScore THEN <<result.hybridScore>> ELSE <<>>,
   metadata |-> result.metadata,
   text |-> TextOf(result.metadata),
   matchedFilters |-> IF filter.type # "undefined" THEN <<KeysOf(filter)>> ELSE <<>>]

\* lines 328-353
HybridResponse(sorted, h) ==
  LET topResults == Slice(sorted, h.topK)
      sources == [i \in DOMAIN topResults |-> SourceOf(topResults[i], h.includeScore, h.filter)]
  IN  [relevantContext |-> [i \in DOMAIN topResults |-> topResults[i].metadata],
       sources |-> sources,
       queryMetadata |-> [totalResults |-> Len(sources),
                          filtersApplied |-> h.appliedFilters,
                          scoringMethod |-> "hybrid"]]

\* lines 304-353: the store has returned at most storeTopK rows; they are
\* scored, sorted, cut to topK and returned
HybridReturn(results, now) ==
  /\ hybrid.pc = "fetching"
  /\ Len(results) <= hybrid.storeTopK
  /\ LET scoredResults == ScoredResults(results, hybrid.queryText,
                                        hybrid.scoringWeights, now)
     IN  \E sorted \in SortOutcomes(scoredResults) :
           hybrid' = [hybrid EXCEPT !.pc = "returned", !.now = now,
                                    !.scoredResults = scoredResults,
                                    !.response = HybridResponse(sorted, hybrid)]
  /\ UNCHANGED <<graphCache, clock, req, nextOid, lastCall, store, unit>>

(***************************************************************************)
(* Specifications.                                                         *)
(***************************************************************************)
InitTool ==
  /\ graphCache = EmptyMap
  /\ clock = 0
  /\ req = EmptyBag
  /\ nextOid = 1
  /\ lastCall = OtherStep
  /\ hybrid = HybridOff

\* the cache protocol: requests one after the other on every key, the clock,
\* cache clearing
Init ==
  /\ InitTool
  /\ store = Catalogue
  /\ unit = UnitOff

Next ==
  \/ \E indexName \in IndexNames, threshold \in Thresholds, rebuildGraph \in BOOLEAN :
       \/ ExecuteHit(1, indexName, threshold, rebuildGraph, Pad(1, 0))
       \/ ExecuteMiss(1, indexName, threshold, rebuildGraph, Pad(1, 0))
  \/ \E r \in InFlight :
       \/ FetchThrows(r)
       \/ \E graphResults \in store :
            \/ FetchEmpty(r, graphResults)
            \/ BuildThrows(r, graphResults)
            \/ BuildStores(r, graphResults)
  \/ Tick
  \/ \E indexName \in IndexNames \cup {<<>>} : ClearGraphCache(indexName)

Spec == Init /\ [][Next]_vars

\* up to MaxRequests concurrent requests on one key
NextRace ==
  \/ \E rebuildGraph \in BOOLEAN :
       \/ ExecuteHit(MaxRequests, <<"v">>, 7, rebuildGraph, Pad(1, 0))
       \/ ExecuteMiss(MaxRequests, <<"v">>, 7, rebuildGraph, Pad(1, 0))
  \/ \E r \in InFlight :
       \/ FetchThrows(r)
       \/ \E graphResults \in store :
            \/ FetchEmpty(r, graphResults)
            \/ BuildThrows(r, graphResults)
            \/ BuildStores(r, graphResults)
  \/ Tick

SpecRace == Init /\ [][NextRace]_vars

\* graph construction: createGraph and query on every candidate list of the
\* bounds, called directly and through the requests of the tool
InitGraph ==
  /\ InitTool
  /\ \E n \in 0..MaxNodes, embeddings \in SeqsUpTo(Embeddings, MaxNodes),
        threshold \in Thresholds :
       /\ unit = [pc |-> "new", chunks |-> ChunksOfLen(n), embeddings |-> embeddings,
                  threshold |-> threshold,
                  graph |-> NewGraphRAG(0, EmbeddingDimension, threshold),
                  err |-> "none", query |-> <<>>]
       /\ store = {ResultsOf(embeddings)}

NextGraph ==
  \/ UnitCreateGraph
  \/ \E query \in Queries : UnitQuery(query)
  \/ \E query \in Queries :
       \/ ExecuteHit(1, <<"v">>, unit.threshold, FALSE, query)
       \/ ExecuteMiss(1, <<"v">>, unit.threshold, FALSE, query)
  \/ \E r \in InFlight :
       \/ FetchThrows(r)
       \/ \E graphResults \in store :
            \/ FetchEmpty(r, graphResults)
            \/ BuildThrows(r, graphResults)
            \/ BuildStores(r, graphResults)

SpecGraph == InitGraph /\ [][NextGraph]_vars

\* embedding lists of the graphs the ranker is run on: a linked pair; three
\* nodes linked to one another, two of them with the same embedding; a linked
\* pair and an isolated zero vector
RankCatalogue ==
  { <<Emb(Pad(3, 4)), Emb(Pad(4, 3))>>,
    <<Emb(Pad(3, 4)), Emb(Pad(4, 3)), Emb(Pad(3, 4))>>,
    <<Emb(Pad(1, 0)), Emb(Pad(4, 3)), Emb(Pad(0, 0))>> }

\* the ranker: query on a GraphRAG object, before createGraph (a graph without
\* nodes) and after it
InitRank ==
  /\ InitTool
  /\ store = {}
  /\ \E embeddings \in RankCatalogue :
       unit = [pc |-> "new", chunks |-> ChunksOfLen(Len(embeddings)),
               embeddings |-> embeddings, threshold |-> 7,
               graph |-> NewGraphRAG(0, EmbeddingDimension, 7),
               err |-> "none", query |-> <<>>, q |-> NoQuery]

NextRank ==
  \/ UnitCreateGraph
  \/ \E query \in Queries, topK \in 0..MaxTopK, randomWalkSteps \in 0..MaxWalkSteps,
        restartProb \in RestartProbs :
       QueryStart(query, topK, randomWalkSteps, restartProb)
  \/ \E random1, random2 \in RandomDraws : WalkStep(random1, random2)
  \/ WalkEnd
  \/ QueryReturn

SpecRank == InitRank /\ [][NextRank]_vars

\* the three-node example queried with topK of 3 or more, so that every node
\* is a seed, and walks of one step or more
InitExample ==
  /\ InitTool
  /\ store = {}
  /\ unit = [pc |-> "new", chunks |-> <<>>, embeddings |-> <<>>, threshold |-> 7,
             graph |-> NewGraphRAG(0, 5, 7), err |-> "none", query |-> <<>>,
             q |-> NoQuery]

NextExample ==
  \/ UnitBuildExample
  \/ \E topK \in 3..(MaxTopK + 1), randomWalkSteps \in 1..MaxWalkSteps,
        restartProb \in RestartProbs :
       /\ unit.pc = "built"
       /\ QueryStart(ExampleQuery, topK, randomWalkSteps, restartProb)
  \/ \E random1, random2 \in RandomDraws : WalkStep(random1, random2)
  \/ WalkEnd
  \/ QueryReturn

SpecExample == InitExample /\ [][NextExample]_vars

\* degenerate inputs: requests on one key whose candidate fetch may return no
\* row, and query on a GraphRAG object without nodes
InitEmpty ==
  /\ InitTool
  /\ store = Catalogue
  /\ unit = [pc |-> "new", chunks |-> <<>>, embeddings |-> <<>>, threshold |-> 7,
             graph |-> NewGraphRAG(0, EmbeddingDimension, 7), err |-> "none",
             query |-> <<>>, q |-> NoQuery]

NextEmpty ==
  \/ \E rebuildGraph \in BOOLEAN, query \in Queries :
       \/ ExecuteHit(1, <<"v">>, 7, rebuildGraph, query)
       \/ ExecuteMiss(1, <<"v">>, 7, rebuildGraph, query)
  \/ \E r \in InFlight :
       \/ FetchThrows(r)
       \/ \E graphResults \in store :
            \/ FetchEmpty(r, graphResults)
            \/ BuildThrows(r, graphResults)
            \/ BuildStores(r, graphResults)
  \/ \E query \in Queries, topK \in 0..MaxTopK, randomWalkSteps \in 0..MaxWalkSteps,
        restartProb \in RestartProbs :
       QueryStart(query, topK, randomWalkSteps, restartProb)
  \/ QueryReturn

SpecEmpty == InitEmpty /\ [][NextEmpty]_vars


\* the graph tool at rest, while the hybrid query tool is exercised
GraphToolIdle ==
  /\ graphCache = EmptyMap
  /\ clock = 0
  /\ req = EmptyBag
  /\ nextOid = 1
  /\ lastCall = OtherStep
  /\ store = {}
  /\ unit = UnitOff

\* the scorer: calculateHybridScore on every combination of the inputs
InitScore ==
  /\ GraphToolIdle
  /\ \E vectorScore \in VectorScores, metadata \in Metadatas, queryText \in QueryTexts,
        weights \in WeightTuples, now \in Nows :
       hybrid = ScoreCall(vectorScore, metadata, queryText, weights, now)

SpecScore == InitScore /\ [][Score]_vars


\* the filter compiler: buildFilterQuery on every filter and start index
InitFilter ==
  /\ GraphToolIdle
  /\ \E filter \in Filters, paramIndex \in StartIndexes :
       hybrid = CompileCall(filter, paramIndex)

SpecFilter == InitFilter /\ [][Compile]_vars


\* the hybrid query tool: one request, which shares no state with another
InitHybrid ==
  /\ GraphToolIdle
  /\ hybrid = HybridIdle

NextHybrid ==
  \/ \E queryText \in QueryTexts, topK \in 0..MaxTopK, filter \in RequestFilters,
        scoringWeights \in WeightTuples, includeScore \in BOOLEAN :
       HybridExecute(queryText, topK, filter, scoringWeights, includeScore)
  \/ HybridThrows
  \/ \E results \in HybridCatalogue, now \in Nows : HybridReturn(results, now)

SpecHybrid == InitHybrid /\ [][NextHybrid]_vars


\* the cosine: cosineSimilarity on every pair of arguments
InitCosine ==
  /\ InitTool
  /\ store = {}
  /\ \E vec1, vec2 \in CosineArguments :
       /\ ExactPair(vec1, vec2)
       /\ unit = CosineCall(vec1, vec2)

SpecCosine == InitCosine /\ [][UnitCosine]_vars


\* cache hits observed: requests with a filter and maxGraphNodes on one key,
\* one at a time, over three stored rows of the index dimension, and the
\* ranking of each hit
InitHit ==
  /\ InitTool
  /\ store = {ResultsOf(<<Emb(Pad(3, 4)), Emb(Pad(4, 3)), Emb(Pad(1, 0))>>)}
  /\ unit = HitIdle

NextHit ==
  \/ \E filter \in RowFilters, maxGraphNodes \in {1, MaxNodes}, rebuildGraph \in BOOLEAN :
       \/ ExecuteHitBegin(filter, maxGraphNodes, <<"v">>, 7, rebuildGraph)
       \/ ExecuteMissFiltered(filter, maxGraphNodes, <<"v">>, 7, rebuildGraph)
  \/ \E r \in {r \in InFlight : NoRun} :
       \/ FetchThrows(r)
       \/ \E rows \in store :
            \/ FetchEmpty(r, Fetched(r, rows))
            \/ BuildStores(r, Fetched(r, rows))
  \/ NoRun /\ Tick
  \/ \E topK \in 1..2 :
       /\ unit.pc = "built"
       /\ QueryStart(Pad(1, 0), topK, 1, Frac(15, 100))
  \/ \E random1, random2 \in RandomDraws : WalkStep(random1, random2)
  \/ WalkEnd
  \/ QueryReturn

SpecHit == InitHit /\ [][NextHit]_vars


\* the custom preset: searchWithCustomPreset on every choice of options
InitPreset ==
  /\ GraphToolIdle
  /\ \E options \in PresetOptions : hybrid = PresetCall(<<"a", "i">>, options)

SpecPreset == InitPreset /\ [][CallPreset]_vars

(***************************************************************************)
(* Properties of the cache protocol.                                       *)
(***************************************************************************)
\* the request that ended in the last step
EndedRequest == lastCall.op = "end"
RequestReturned == EndedRequest /\ lastCall.out.returned
RequestKey == CacheKey(lastCall.req.indexName, lastCall.req.threshold)
\* the age, at the lookup, of the entry the request found under its key
SeenAge == lastCall.req.now - lastCall.req.seen.createdAt
SeenFresh == lastCall.req.seen.present /\ SeenAge < 30 * 60 * 1000
SeenExpired == lastCall.req.seen.present /\ SeenAge >= 30 * 60 * 1000
\* the request ranked over a graph it constructed itself
RankedNewGraph ==
  /\ lastCall.out.built
  /\ lastCall.out.graph = nextOid - 1
  /\ lastCall.out.graph # lastCall.req.seen.oid

\* C1 as stated: a request that found no entry returns cacheHit=false; one that
\* found an entry younger than 30 minutes, without rebuildGraph, returns
\* cacheHit=true and ranks over that very graph object; one that found an entry
\* of 30 minutes or more returns cacheHit=false and a newly built graph.
C1_AsStated ==
  RequestReturned =>
    /\ (~lastCall.req.seen.present => ~lastCall.out.cacheHit)
    /\ (SeenFresh /\ ~lastCall.req.rebuildGraph =>
          lastCall.out.cacheHit /\ lastCall.out.graph = lastCall.req.seen.oid)
    /\ (SeenExpired => ~lastCall.out.cacheHit /\ RankedNewGraph)

\* C1 amended: as C1, but the request after expiry returns a newly built graph
\* only when the vector store returned at least one candidate; with no candidate
\* it returns cacheHit=false and no graph.
C1_FirstMissThenHitThenExpiry ==
  RequestReturned =>
    /\ (~lastCall.req.seen.present => ~lastCall.out.cacheHit)
    /\ (SeenFresh /\ ~lastCall.req.rebuildGraph =>
          lastCall.out.cacheHit /\ lastCall.out.graph = lastCall.req.seen.oid)
    /\ (SeenExpired =>
          /\ ~lastCall.out.cacheHit
          /\ lastCall.out.graph # lastCall.req.seen.oid
          /\ (lastCall.out.candidates > 0 => RankedNewGraph)
          /\ (lastCall.out.candidates = 0 => lastCall.out.graph = NoGraph))

\* a request without rebuildGraph found an expired entry and returned a new graph
C1_Witness ==
  /\ RequestReturned
  /\ SeenExpired
  /\ ~lastCall.req.rebuildGraph
  /\ lastCall.out.candidates > 0
  /\ RankedNewGraph

\* C2: a request returns cacheHit=true iff at its lookup an entry existed under
\* its key, rebuildGraph was false and the entry's age was strictly less than
\* 30 minutes.
C2_HitIffValid ==
  RequestReturned =>
    (lastCall.out.cacheHit <=>
       /\ lastCall.req.seen.present
       /\ ~lastCall.req.rebuildGraph
       /\ SeenAge < 30 * 60 * 1000)

\* a request without rebuildGraph found an entry aged exactly the TTL: a miss
C2_Witness ==
  /\ RequestReturned
  /\ lastCall.req.seen.present
  /\ ~lastCall.req.rebuildGraph
  /\ SeenAge = 30 * 60 * 1000
  /\ ~lastCall.out.cacheHit

\* the request was a miss or a forced rebuild
RequestMissed ==
  ~(lastCall.req.seen.present /\ ~lastCall.req.rebuildGraph /\ SeenAge < 30 * 60 * 1000)

\* the cache holds under the request's key the entry the request built
HoldsOwnEntry ==
  /\ RequestKey \in DOMAIN graphCache
  /\ graphCache[RequestKey].graph.oid = nextOid - 1
  /\ graphCache[RequestKey].graph.oid # lastCall.req.seen.oid
  /\ graphCache[RequestKey].graph.oid = lastCall.out.graph
  /\ graphCache[RequestKey].createdAt = lastCall.req.now
  /\ graphCache[RequestKey].indexName = lastCall.req.indexName
  /\ graphCache[RequestKey].nodeCount = lastCall.out.nodeCount

\* C3 as stated: after a request that was a miss or a forced rebuild and that
\* returned, the cache holds under its key the entry it built, and it reports
\* cacheHit=false.
C3_AsStated ==
  RequestReturned /\ RequestMissed => HoldsOwnEntry /\ ~lastCall.out.cacheHit

\* C3 amended: the same for a request whose candidate fetch returned at least
\* one row; a request whose fetch returned none reports cacheHit=false and
\* writes nothing.
C3_MissStoresOwnEntry ==
  /\ RequestReturned /\ RequestMissed => ~lastCall.out.cacheHit
  /\ RequestReturned /\ RequestMissed /\ lastCall.out.candidates > 0 => HoldsOwnEntry

\* a forced rebuild replaced an entry that was still valid
C3_Witness ==
  /\ RequestReturned
  /\ lastCall.req.rebuildGraph
  /\ SeenFresh
  /\ lastCall.out.candidates > 0
  /\ HoldsOwnEntry

\* the messages createGraph throws
CreateGraphErrors ==
  {"Chunks and embeddings arrays must not be empty",
   "Chunks and embeddings must have the same length",
   "Node must have an embedding", "Embedding dimension must be",
   "Both source and target nodes must exist", "Vector dimensions must match"}

\* C4: after a request whose graph construction threw, the cache holds under
\* the request's key no entry that predates the failed rebuild.
C4_NoStaleEntryAfterFailedBuild ==
  EndedRequest /\ lastCall.out.error \in CreateGraphErrors =>
    ~(/\ RequestKey \in DOMAIN graphCache
      /\ graphCache[RequestKey].createdAt <= lastCall.req.now
      /\ graphCache[RequestKey].graph.oid < nextOid - 1)

\* C5: under any interleaving of requests on one key, every entry that appears
\* in the cache or changes is written whole by the request that ends in that
\* step: its graph is the one that request constructed, with that request's
\* indexName and lookup time, and nodeCount is that graph's node count.
C5_EntriesWrittenWhole ==
  [][\A k \in DOMAIN graphCache' :
       (k \notin DOMAIN graphCache \/ graphCache'[k] # graphCache[k]) =>
         /\ lastCall'.op = "end"
         /\ lastCall'.out.built
         /\ k = CacheKey(lastCall'.req.indexName, lastCall'.req.threshold)
         /\ graphCache'[k].graph.oid = nextOid
         /\ graphCache'[k].graph.threshold = lastCall'.req.threshold
         /\ graphCache'[k].indexName = lastCall'.req.indexName
         /\ graphCache'[k].createdAt = lastCall'.req.now
         /\ graphCache'[k].nodeCount = getNodeCount(graphCache'[k].graph)
         /\ graphCache'[k].nodeCount = lastCall'.out.candidates]_vars

\* a redundant rebuild: the request found no entry, and the entry it wrote is
\* the second graph constructed for the key
C5_Witness ==
  /\ EndedRequest
  /\ lastCall.out.built
  /\ ~lastCall.req.seen.present
  /\ lastCall.out.graph = 2
  /\ graphCache[RequestKey].graph.oid = 2

\* C6: clearGraphCache(name) removes exactly the entries whose key starts with
\* name and leaves the others as they were; without argument it empties the
\* cache; no other operation removes an entry.
C6_ClearRemovesPrefix ==
  [][/\ lastCall'.op = "clear" /\ lastCall'.name # <<>> =>
          /\ DOMAIN graphCache' =
               {k \in DOMAIN graphCache :
                  ~(Len(lastCall'.name) <= Len(k)
                    /\ \A i \in 1..Len(lastCall'.name) : k[i] = lastCall'.name[i])}
          /\ \A k \in DOMAIN graphCache' : graphCache'[k] = graphCache[k]
     /\ lastCall'.op = "clear" /\ lastCall'.name = <<>> => DOMAIN graphCache' = {}
     /\ lastCall'.op # "clear" => DOMAIN graphCache \subseteq DOMAIN graphCache']_vars

\* clearGraphCache("v2") was the last step and an entry of index "v" is cached
C6_Witness ==
  /\ lastCall.op = "clear"
  /\ lastCall.name = <<"v", "2">>
  /\ \E t \in Thresholds : CacheKey(<<"v">>, t) \in DOMAIN graphCache

\* C7: a request that is a cache hit leaves the cache as it was: the entry's
\* graph, createdAt and nodeCount are the same after the request as before it.
C7_HitChangesNothing ==
  [][lastCall'.op = "end" /\ lastCall'.out.cacheHit => graphCache' = graphCache]_vars

\* a hit on an entry that is older than the request's lookup time
C7_Witness ==
  /\ RequestReturned
  /\ lastCall.out.cacheHit
  /\ SeenAge > 0
  /\ graphCache[RequestKey].createdAt = lastCall.req.seen.createdAt

\* C26: clearGraphCache(X) never removes an entry built for a different
\* collection: for all names X # Y and all thresholds, an entry stored by a
\* request with indexName Y is still present and unchanged after
\* clearGraphCache(X).
C26_ClearKeepsOtherCollections ==
  [][lastCall'.op = "clear" /\ lastCall'.name # <<>> =>
       \A k \in DOMAIN graphCache :
         graphCache[k].indexName # lastCall'.name =>
           k \in DOMAIN graphCache' /\ graphCache'[k] = graphCache[k]]_vars



\* C28: across successive writes to one key the stored createdAt never moves
\* backwards: a rebuilding request replaces only an entry whose createdAt is
\* at most its own start, so that of two overlapping rebuilds on a key the
\* entry left is that of the request that started later.
C28_LaterRebuildWins ==
  [][\A k \in DOMAIN graphCache \cap DOMAIN graphCache' :
       graphCache'[k].createdAt >= graphCache[k].createdAt]_vars

(***************************************************************************)
(* Properties of a cache hit.                                              *)
(***************************************************************************)
\* a step of the synchronous run of a request that hit the cache
HitStep == unit'.cacheHit /\ unit' # unit
\* a request that hit the cache has returned its sources
HitReturned == unit.pc = "queried" /\ unit.cacheHit /\ unit.err = "none"
HitKey == CacheKey(unit.request.indexName, unit.request.threshold)

BuiltGraphs ==
  (IF unit.pc \in {"built", "queried"} THEN {unit.graph} ELSE {})
    \cup {graphCache[k].graph : k \in DOMAIN graphCache}

\* the positions in the edge list of the entries a -> b
EdgeEntries(g, a, b) ==
  {e \in 1..Len(g.edges) : g.edges[e].source = a /\ g.edges[e].target = b}

\* the cosine of the embeddings of the i-th and j-th node (from 1)
PairCosine(g, i, j) ==
  cosineSimilarity(g.nodes[i].embedding.vector, g.nodes[j].embedding.vector)

PairAboveThreshold(g, i, j) ==
  PairCosine(g, i, j)[1] * 10 > g.threshold * PairCosine(g, i, j)[2]

EdgesMatchCosine(g) ==
  LET n == Len(g.nodes)
      pairs == {p \in (1..n) \X (1..n) : p[1] < p[2]}
  IN  /\ \A p \in pairs :
           LET a == IndexToString(p[1] - 1)
               b == IndexToString(p[2] - 1)
           IN  /\ PairAboveThreshold(g, p[1], p[2]) =>
                    EdgeEntries(g, a, b) # {} /\ EdgeEntries(g, b, a) # {}
               /\ ~PairAboveThreshold(g, p[1], p[2]) =>
                    EdgeEntries(g, a, b) = {} /\ EdgeEntries(g, b, a) = {}
               /\ \A e \in EdgeEntries(g, a, b) \cup EdgeEntries(g, b, a) :
                    g.edges[e].weight = PairCosine(g, p[1], p[2])
      /\ \A k \in 1..n : g.nodes[k].id = IndexToString(k - 1)
      /\ getEdgeCount(g) =
           <<Cardinality({p \in pairs : PairAboveThreshold(g, p[1], p[2])}), 1>>

\* C8: in a graph built by createGraph, for all i < j the edge list holds the
\* entries i->j and j->i iff the cosine of the two embeddings exceeds the
\* threshold, both with that cosine as weight, and getEdgeCount() is the number
\* of pairs whose cosine exceeds the threshold.
C8_EdgesIffCosineAboveThreshold == \A g \in BuiltGraphs : EdgesMatchCosine(g)

\* three nodes, exactly one pair of which is linked
C8_Witness ==
  /\ unit.pc = "built"
  /\ Len(unit.graph.nodes) = 3
  /\ Len(unit.graph.edges) = 2

\* C9: in every graph built by createGraph and then only queried, each edge
\* weight w satisfies threshold < w <= 1, no edge joins a node to itself, and
\* no two entries of the edge list have the same source and the same target.
C9_EdgeInvariant ==
  \A g \in BuiltGraphs :
    /\ \A e \in 1..Len(g.edges) :
         /\ g.edges[e].weight[1] * 10 > g.threshold * g.edges[e].weight[2]
         /\ g.edges[e].weight[1] <= g.edges[e].weight[2]
         /\ g.edges[e].source # g.edges[e].target
    /\ \A e1, e2 \in 1..Len(g.edges) :
         (/\ g.edges[e1].source = g.edges[e2].source
          /\ g.edges[e1].target = g.edges[e2].target) => e1 = e2

\* a cached graph, served by a hit, with an edge of weight exactly 1
C9_Witness ==
  /\ RequestReturned
  /\ lastCall.out.cacheHit
  /\ \E e \in 1..Len(graphCache[RequestKey].graph.edges) :
       graphCache[RequestKey].graph.edges[e].weight = <<1, 1>>

\* the arguments of the direct createGraph call satisfy its preconditions
UnitInputsValid ==
  /\ Len(unit.chunks) > 0
  /\ Len(unit.embeddings) > 0
  /\ Len(unit.chunks) = Len(unit.embeddings)
  /\ \A k \in 1..Len(unit.embeddings) :
       /\ unit.embeddings[k].has
       /\ Len(unit.embeddings[k].vector) = unit.graph.dimension

\* the rows the vector store returned all carry a vector of the graph's dimension
RowsValid(rows) ==
  \A k \in 1..Len(rows) : rows[k].has /\ Len(rows[k].vector) = EmbeddingDimension

\* C10: createGraph throws when chunks or embeddings is empty, when their
\* lengths differ or when an embedding's length is not the dimension; query
\* throws when the query embedding's length is not the dimension; the nodes of
\* a built graph carry the embeddings as given; and a graph whose construction
\* threw is not in the cache.
C10_DimensionErrors ==
  /\ unit.pc \in {"built", "queried"} =>
       /\ UnitInputsValid
       /\ Len(unit.graph.nodes) = Len(unit.embeddings)
       /\ \A k \in 1..Len(unit.embeddings) :
            unit.graph.nodes[k].embedding = unit.embeddings[k]
  /\ unit.pc = "failed" => ~UnitInputsValid /\ unit.err \in CreateGraphErrors
  /\ unit.pc = "queried" =>
       (unit.err # "none" <=> Len(unit.query) # unit.graph.dimension)
  /\ EndedRequest /\ lastCall.out.built => \A rows \in store : RowsValid(rows)
  /\ EndedRequest /\ lastCall.out.candidates > 0 /\ ~lastCall.out.built =>
       /\ lastCall.out.error \in CreateGraphErrors
       /\ \A rows \in store : ~RowsValid(rows)
       /\ \A k \in DOMAIN graphCache : graphCache[k].graph.oid # nextOid - 1
  /\ RequestReturned /\ lastCall.out.graph # NoGraph =>
       Len(lastCall.req.query) = EmbeddingDimension
  /\ \A k \in DOMAIN graphCache :
       /\ Len(graphCache[k].graph.nodes) > 0
       /\ \A n \in 1..Len(graphCache[k].graph.nodes) :
            Len(graphCache[k].graph.nodes[n].embedding.vector)
              = graphCache[k].graph.dimension

\* createGraph threw on a wrong dimension, called directly and within a request,
\* and the cache holds nothing
C10_Witness ==
  /\ unit.pc = "failed"
  /\ unit.err = "Embedding dimension must be"
  /\ EndedRequest
  /\ lastCall.out.error = "Embedding dimension must be"
  /\ DOMAIN graphCache = {}

(***************************************************************************)
(* Properties of the ranker.                                               *)
(***************************************************************************)
\* the seed whose walk is under way
SeedId == unit.q.topNodes[unit.q.seed].id
\* the nodes the edge list joins to nodeId
Adjacent(g, nodeId) ==
  {g.edges[e].target : e \in {x \in 1..Len(g.edges) : g.edges[x].source = nodeId}}
\* number < restartProb
BelowRestartProb(number) ==
  number[1] * unit.q.restartProb[2] < unit.q.restartProb[1] * number[2]

\* C11: in randomWalkWithRestart from seed s the walker's next position at
\* every step is s when a restart is drawn, s when the current node has no
\* neighbours, and otherwise a node adjacent to the current node; a walk starts
\* at s.
C11_WalkerMoves ==
  [][/\ Walking /\ unit'.pc = "walking" /\ unit'.q.seed = unit.q.seed
          /\ unit'.q.walk.step = unit.q.walk.step + 1 =>
            IF BelowRestartProb(unit'.q.walk.random)
            THEN unit'.q.walk.currentNodeId = SeedId
            ELSE IF Adjacent(unit.graph, unit.q.walk.currentNodeId) = {}
            THEN unit'.q.walk.currentNodeId = SeedId
            ELSE unit'.q.walk.currentNodeId
                   \in Adjacent(unit.graph, unit.q.walk.currentNodeId)
     /\ unit'.pc = "walking" /\ unit'.q.seed <= Len(unit'.q.topNodes)
          /\ unit'.q.walk.step = 0 =>
            unit'.q.walk.currentNodeId = unit'.q.topNodes[unit'.q.seed].id]_vars

\* the walker had moved to a neighbour of the seed, a restart was drawn there
\* and the walker is back on the seed
C11_Witness ==
  /\ Walking
  /\ unit.q.walk.step = 2
  /\ Len(unit.q.walk.visits) = 2
  /\ BelowRestartProb(unit.q.walk.random)
  /\ unit.q.walk.currentNodeId = SeedId

\* the sum of the normalised visit values of a walk
SumOfScores(walkScores) ==
  LET F[k \in 0..Len(walkScores)] ==
        IF k = 0 THEN <<0, 1>>
        ELSE <<F[k - 1][1] * walkScores[k].score[2] + walkScores[k].score[1] * F[k - 1][2],
               F[k - 1][2] * walkScores[k].score[2]>>
  IN  F[Len(walkScores)]

\* the walk recorded exactly randomWalkSteps visits
RecordsEveryStep(w) ==
  SumSeq([k \in 1..Len(w.visits) |-> w.visits[k].count]) = unit.q.randomWalkSteps

\* the values the walk returned are a probability distribution over the
\* visited nodes, the seed among them
IsDistribution(w) ==
  /\ Len(w.walkScores) = Len(w.visits)
  /\ \A k \in 1..Len(w.walkScores) :
       /\ w.walkScores[k].id = w.visits[k].id
       /\ w.walkScores[k].score[1] >= 0 /\ w.walkScores[k].score[2] > 0
  /\ SumOfScores(w.walkScores)[1] = SumOfScores(w.walkScores)[2]
  /\ \E k \in 1..Len(w.walkScores) : w.walkScores[k].id = w.id

\* C12 as stated: for every seed and every randomWalkSteps, the walk records
\* exactly randomWalkSteps visits and the values it returns are non-negative,
\* sum to 1 and include the seed.
C12_AsStated ==
  \A i \in 1..Len(unit.q.walks) :
    RecordsEveryStep(unit.q.walks[i]) /\ IsDistribution(unit.q.walks[i])

\* C12 amended: the walk records exactly randomWalkSteps visits; when
\* randomWalkSteps is 1 or more the values it returns are non-negative, sum to
\* 1 and include the seed; when randomWalkSteps is 0 it returns no value.
C12_VisitsAreDistribution ==
  \A i \in 1..Len(unit.q.walks) :
    /\ RecordsEveryStep(unit.q.walks[i])
    /\ unit.q.randomWalkSteps >= 1 => IsDistribution(unit.q.walks[i])
    /\ unit.q.randomWalkSteps = 0 => unit.q.walks[i].walkScores = <<>>

\* a walk of three steps that visited the seed twice and a neighbour once
C12_Witness ==
  \E i \in 1..Len(unit.q.walks) :
    /\ unit.q.randomWalkSteps = 3
    /\ Len(unit.q.walks[i].visits) = 2
    /\ unit.q.walks[i].walkScores[1] = [id |-> unit.q.walks[i].id, score |-> <<2, 3>>]

\* query has returned a ranking
QueryReturned == unit.pc = "queried" /\ unit.err = "none"

\* the number of visits the i-th walk made to node id
VisitsTo(i, id) ==
  SumSeq([k \in 1..Len(unit.q.walks[i].visits) |->
            IF unit.q.walks[i].visits[k].id = id
            THEN unit.q.walks[i].visits[k].count ELSE 0])

\* the number of visits of the i-th walk
VisitsOf(i) ==
  SumSeq([k \in 1..Len(unit.q.walks[i].visits) |-> unit.q.walks[i].visits[k].count])

\* the walks that visited node id
WalksThrough(id) == {i \in 1..Len(unit.q.walks) : VisitsTo(i, id) > 0}

\* similarity(query, seed of the i-th walk)
SeedSimilarity(i) ==
  cosineSimilarity(unit.q.query, NodeOf(unit.graph, unit.q.walks[i].id).embedding.vector)

\* the sum over the first i walks of similarity * visits to id / visits
RECURSIVE ExpectedScore(_, _)
ExpectedScore(id, i) ==
  IF i = 0 THEN <<0, 1>>
  ELSE LET rest == ExpectedScore(id, i - 1)
           sim == SeedSimilarity(i)
           num == IF VisitsTo(i, id) > 0 THEN sim[1] * VisitsTo(i, id) ELSE 0
           den == IF VisitsTo(i, id) > 0 THEN sim[2] * VisitsOf(i) ELSE 1
       IN  Frac(rest[1] * den + num * rest[2], rest[2] * den)

\* the positions of node id in the score map
ScoreEntries(id) ==
  {k \in 1..Len(unit.q.rerankedNodes) : unit.q.rerankedNodes[k].id = id}

\* C13: after query, the accumulated score of each node n is the sum over all
\* seeds s of similarity(query, s) * (visits to n in s's walk / visits of s's
\* walk); a node visited in no walk has no score.
C13_ScoreIsSumOverSeeds ==
  QueryReturned =>
    /\ \A k \in 1..Len(unit.q.walks) : unit.q.walks[k].id = unit.q.topNodes[k].id
    /\ Len(unit.q.walks) = Len(unit.q.topNodes)
    /\ \A n \in 1..Len(unit.graph.nodes) :
         LET id == unit.graph.nodes[n].id
         IN  IF WalksThrough(id) = {} THEN ScoreEntries(id) = {}
             ELSE /\ Cardinality(ScoreEntries(id)) = 1
                  /\ \A k \in ScoreEntries(id) :
                       unit.q.rerankedNodes[k].score
                         = ExpectedScore(id, Len(unit.q.walks))
    /\ \A k \in 1..Len(unit.q.rerankedNodes) :
         \E n \in 1..Len(unit.graph.nodes) :
           unit.graph.nodes[n].id = unit.q.rerankedNodes[k].id

\* a node scored from the walks of two seeds, and a node no walk visited
C13_Witness ==
  /\ QueryReturned
  /\ \E n \in 1..Len(unit.graph.nodes) :
       Cardinality(WalksThrough(unit.graph.nodes[n].id)) >= 2
  /\ \E n \in 1..Len(unit.graph.nodes) : WalksThrough(unit.graph.nodes[n].id) = {}

\* query has passed its dimension check and chosen its seeds
SeedsChosen == unit.pc \in {"walking", "queried"} /\ unit.err = "none"

\* the position of node id among the candidates, from 1
IndexOfNode(id) == CHOOSE k \in 1..Len(unit.graph.nodes) : unit.graph.nodes[k].id = id

\* the cosine of the query embedding and the embedding of the n-th node
QueryCosine(n) ==
  cosineSimilarity(unit.q.query, unit.graph.nodes[n].embedding.vector)

\* the m-th node comes before the n-th in the order of the seeds: a higher
\* similarity or, at the same similarity, a lower index
SeedsBefore(m, n) ==
  \/ QueryCosine(m)[1] * QueryCosine(n)[2] > QueryCosine(n)[1] * QueryCosine(m)[2]
  \/ QueryCosine(m) = QueryCosine(n) /\ m < n

\* C14: the walk seeds are the min(topK, nodeCount) nodes with the highest
\* cosine similarity to the query embedding, in descending order of similarity,
\* the lower index first among nodes of equal similarity.
C14_SeedsAreTopSimilar ==
  SeedsChosen =>
    LET seeds == unit.q.topNodes
        n == Len(unit.graph.nodes)
        seedIndices == {IndexOfNode(seeds[k].id) : k \in 1..Len(seeds)}
    IN  /\ Len(seeds) = IF unit.q.topK < n THEN unit.q.topK ELSE n
        /\ \A k \in 1..Len(seeds) :
             /\ \E m \in 1..n : unit.graph.nodes[m].id = seeds[k].id
             /\ seeds[k].similarity = QueryCosine(IndexOfNode(seeds[k].id))
        /\ \A k \in 1..(Len(seeds) - 1) :
             SeedsBefore(IndexOfNode(seeds[k].id), IndexOfNode(seeds[k + 1].id))
        /\ \A m \in seedIndices : \A o \in (1..n) \ seedIndices : SeedsBefore(m, o)

\* two seeds out of three nodes, and the node left out has the similarity of a seed
C14_Witness ==
  /\ SeedsChosen
  /\ Len(unit.q.topNodes) = 2
  /\ Len(unit.graph.nodes) = 3
  /\ \E k \in 1..2 : \E o \in 1..3 :
       /\ \A j \in 1..2 : unit.q.topNodes[j].id # unit.graph.nodes[o].id
       /\ unit.q.topNodes[k].similarity = QueryCosine(o)

\* the accumulated score of node id, which has one
ScoreOf(id) ==
  unit.q.rerankedNodes[CHOOSE k \in 1..Len(unit.q.rerankedNodes) :
                         unit.q.rerankedNodes[k].id = id].score

\* the ids query returned
ReturnedIds == {unit.q.result[k].id : k \in 1..Len(unit.q.result)}

\* C15: query returns at most topK results, each node id at most once, in
\* non-increasing order of accumulated score, and every scored node left out
\* of the result has a score no greater than that of every returned node.
C15_TopKByScore ==
  QueryReturned =>
    /\ Len(unit.q.result) <= unit.q.topK
    /\ \A j, k \in 1..Len(unit.q.result) :
         unit.q.result[j].id = unit.q.result[k].id => j = k
    /\ \A k \in 1..Len(unit.q.result) :
         /\ ScoreEntries(unit.q.result[k].id) # {}
         /\ unit.q.result[k].score = ScoreOf(unit.q.result[k].id)
    /\ \A k \in 1..(Len(unit.q.result) - 1) :
         unit.q.result[k + 1].score[1] * unit.q.result[k].score[2]
           <= unit.q.result[k].score[1] * unit.q.result[k + 1].score[2]
    /\ \A e \in 1..Len(unit.q.rerankedNodes) :
         unit.q.rerankedNodes[e].id \notin ReturnedIds =>
           \A k \in 1..Len(unit.q.result) :
             unit.q.rerankedNodes[e].score[1] * unit.q.result[k].score[2]
               <= unit.q.result[k].score[1] * unit.q.rerankedNodes[e].score[2]

\* three nodes have a score, two are returned, the second with a lower score
\* than the first
C15_Witness ==
  /\ QueryReturned
  /\ Len(unit.q.rerankedNodes) = 3
  /\ unit.q.topK = 2
  /\ Len(unit.q.result) = 2
  /\ unit.q.result[1].score # unit.q.result[2].score

\* the position of node id in the ranking query returned; 0 when it is not there
RankOf(id) ==
  IF id \in ReturnedIds
  THEN CHOOSE k \in 1..Len(unit.q.result) : unit.q.result[k].id = id
  ELSE 0

\* C16 as stated: in the three-node example with topK >= 3, B's accumulated
\* score after query exceeds C's accumulated score.
C16_AsStated ==
  QueryReturned =>
    /\ ScoreEntries("B") # {}
    /\ ScoreEntries("C") # {}
    /\ ScoreOf("C")[1] * ScoreOf("B")[2] < ScoreOf("B")[1] * ScoreOf("C")[2]

\* C16 amended: in the three-node example with topK >= 3 and randomWalkSteps
\* >= 1, B's accumulated score after query is never less than C's, and B comes
\* before C in the ranking returned.
C16_ConnectedNotBelowIsolated ==
  QueryReturned =>
    /\ ScoreEntries("B") # {}
    /\ ScoreEntries("C") # {}
    /\ ScoreOf("C")[1] * ScoreOf("B")[2] <= ScoreOf("B")[1] * ScoreOf("C")[2]
    /\ ScoreOf("C") = <<1, 20>>
    /\ RankOf("B") > 0
    /\ RankOf("B") < RankOf("C")

\* a query whose walk from A reached B, so that B's score exceeds C's
C16_Witness ==
  /\ QueryReturned
  /\ unit.q.randomWalkSteps = 3
  /\ \E k \in 1..Len(unit.q.walks[1].visits) : unit.q.walks[1].visits[k].id = "B"
  /\ ScoreOf("C")[1] * ScoreOf("B")[2] < ScoreOf("B")[1] * ScoreOf("C")[2]


\* the nodes joined to nodeId by a path of edges, nodeId included
Component(g, nodeId) ==
  LET F[k \in 0..Len(g.nodes)] ==
        IF k = 0 THEN {nodeId}
        ELSE F[k - 1] \cup UNION {Adjacent(g, id) : id \in F[k - 1]}
  IN  F[Len(g.nodes)]

\* C30: after query every node with an accumulated score lies in the connected
\* component of at least one seed, and the walk of a seed without neighbours
\* contributes to that seed only.
C30_ScoresStayInSeedComponents ==
  QueryReturned =>
    /\ \A k \in 1..Len(unit.q.rerankedNodes) :
         \E s \in 1..Len(unit.q.topNodes) :
           unit.q.rerankedNodes[k].id \in Component(unit.graph, unit.q.topNodes[s].id)
    /\ \A i \in 1..Len(unit.q.walks) :
         Adjacent(unit.graph, unit.q.walks[i].id) = {} =>
           \A k \in 1..Len(unit.q.walks[i].walkScores) :
             unit.q.walks[i].walkScores[k].id = unit.q.walks[i].id

\* the walk of an isolated seed made two visits or more, all to the seed, in a
\* graph in which another seed has neighbours and a walk that left it
C30_Witness ==
  /\ QueryReturned
  /\ \E i \in 1..Len(unit.q.walks) :
       /\ Adjacent(unit.graph, unit.q.walks[i].id) = {}
       /\ VisitsOf(i) >= 2
       /\ VisitsTo(i, unit.q.walks[i].id) = VisitsOf(i)
  /\ \E i \in 1..Len(unit.q.walks) :
       /\ Adjacent(unit.graph, unit.q.walks[i].id) # {}
       /\ Len(unit.q.walks[i].walkScores) >= 2

(***************************************************************************)
(* Properties of degenerate inputs.                                        *)
(***************************************************************************)
\* the request that ended fetched candidates and the fetch returned no row
FetchedNothing ==
  /\ EndedRequest
  /\ RequestMissed
  /\ lastCall.out.candidates = 0
  /\ lastCall.out.error # "UpstreamError"

\* C17: a request whose candidate fetch returns no items raises no error and
\* returns empty relevantContext and empty sources with nodeCount 0, edgeCount
\* 0 and cacheHit=false; query on a graph with no nodes, given a query
\* embedding of the graph's dimension, returns an empty list and raises nothing.
C17_EmptyInputsYieldEmptyOutput ==
  /\ FetchedNothing =>
       /\ lastCall.out.returned
       /\ lastCall.out.error = "none"
       /\ lastCall.out.relevantContext = <<>>
       /\ lastCall.out.sources = <<>>
       /\ lastCall.out.nodeCount = 0
       /\ lastCall.out.edgeCount = <<0, 1>>
       /\ ~lastCall.out.cacheHit
  /\ unit.pc = "queried" /\ Len(unit.graph.nodes) = 0
       /\ Len(unit.q.query) = unit.graph.dimension =>
         unit.err = "none" /\ unit.q.result = <<>>

\* a request returned from an empty fetch while the cache holds a graph, and
\* query has returned on the graph without nodes for a topK of 1 or more
C17_Witness ==
  /\ FetchedNothing
  /\ lastCall.out.returned
  /\ DOMAIN graphCache # {}
  /\ unit.pc = "queried"
  /\ unit.err = "none"
  /\ unit.q.topK >= 1
  /\ unit.q.randomWalkSteps >= 1

(***************************************************************************)
(* Properties of the hybrid scorer.                                        *)
(***************************************************************************)
Scored == hybrid.pc = "scored"

\* the tokens of a query text: its maximal runs of characters other than white
\* space, in lower case
Tokens(queryText) == SelectSeq(Split(toLowerCase(queryText)), LAMBDA piece : piece # <<>>)

\* the number of tokens that some tag of the item contains or is contained in
MatchedTokens(metadata, queryText) ==
  Len(SelectSeq(Tokens(queryText), LAMBDA t : TagMatches(LowerTags(metadata), t)))

\* C19: the tag score calculateHybridScore computes is the number of query
\* tokens matched by some tag of the item divided by the number of query
\* tokens, and it is 0 when the query text has no token (it is empty or white
\* space only), whatever tags the item carries.
C19_TagScoreIsMatchedFraction ==
  Scored =>
    LET tokens == Tokens(hybrid.queryText)
    IN  hybrid.tagScore =
          IF Len(tokens) = 0 THEN FracOfInt(0)
          ELSE Frac(MatchedTokens(hybrid.metadata, hybrid.queryText), Len(tokens))

(***************************************************************************)
(* Properties of the filter compiler.                                      *)
(***************************************************************************)
Compiled == hybrid.pc = "compiled"

\* line 22
filterOperators ==
  {"$eq", "$ne", "$gt", "$gte", "$lt", "$lte", "$in", "$between",
   "$contains", "$startsWith", "$endsWith"}

\* an operator outside filterOperators, a $between value that is not a list of
\* exactly two bounds, an empty $in set
InvalidOperator(op, val) ==
  \/ op \notin filterOperators
  \/ op = "$between" /\ ~(val.type = "array" /\ Len(val.val) = 2)
  \/ op = "$in" /\ val.type = "array" /\ Len(val.val) = 0

\* the filter has such a field constraint, at the top or under $and, $or, $not
RECURSIVE HasInvalidConstraint(_)
HasInvalidConstraint(filter) ==
  /\ filter.type = "object"
  /\ \E k \in DOMAIN filter.val :
       LET key == filter.val[k].key
           value == filter.val[k].value
       IN  CASE key \in {"$and", "$or"} ->
                  /\ value.type = "array"
                  /\ \E j \in DOMAIN value.val : HasInvalidConstraint(value.val[j])
             [] key = "$not" -> HasInvalidConstraint(value)
             [] OTHER ->
                  /\ value.type = "object"
                  /\ \E j \in DOMAIN value.val :
                       InvalidOperator(value.val[j].key, value.val[j].value)

\* C20: buildFilterQuery fails with an error and produces no predicate when a
\* field constraint uses an operator outside filterOperators, when a $between
\* value does not have exactly two bounds, or when an $in set is empty.
C20_InvalidConstraintFails ==
  (Compiled /\ HasInvalidConstraint(hybrid.filter)) =>
    (hybrid.result.err # "none" /\ hybrid.result.query = <<>>)

(***************************************************************************)
(* Properties of the hybrid query tool.                                    *)
(***************************************************************************)
HybridReturned == hybrid.pc = "returned"

\* the item has no publishedAt, or one that is no date, and no viewCount
LacksDateAndViews(metadata) ==
  IsNaN(PublishedTime(metadata)) /\ "viewCount" \notin DOMAIN metadata

\* weights.vector x vectorScore + weights.tags x tagScore
NeutralScore(row, h) ==
  NumAdd(NumMul(h.scoringWeights.vector, row.score),
         NumMul(h.scoringWeights.tags, TagScore(row.metadata, h.queryText)))

\* the candidates in the order their scores give them when a date that is
\* missing or no date counts as freshness 0
NeutralRanking(h) ==
  StableByHybridScore(
    [i \in DOMAIN h.scoredResults |->
       [h.scoredResults[i] EXCEPT !.hybridScore =
          IF IsNaN(PublishedTime(h.scoredResults[i].metadata))
          THEN WeightedSum(h.scoringWeights, h.scoredResults[i].score, FracOfInt(0),
                           PopularityScore(h.scoredResults[i].metadata),
                           TagScore(h.scoredResults[i].metadata, h.queryText))
          ELSE @]])

\* C18: an item without publishedAt (or with an unparseable one) and without
\* viewCount gets freshness 0 and popularity 0: its hybrid score is the finite
\* number weights.vector x vectorScore + weights.tags x tagScore, and it stays
\* in the ranked output at the position that score gives it among the other
\* candidates.
C18_MissingFieldsScoreNeutral ==
  HybridReturned =>
    \A i \in DOMAIN hybrid.scoredResults :
      LacksDateAndViews(hybrid.scoredResults[i].metadata) =>
        LET ranking == NeutralRanking(hybrid)
            sources == hybrid.response.sources
            id == hybrid.scoredResults[i].id
            position == CHOOSE k \in DOMAIN ranking : ranking[k].id = id
        IN  /\ ~IsNaN(hybrid.scoredResults[i].hybridScore)
            /\ hybrid.scoredResults[i].hybridScore = NeutralScore(hybrid.scoredResults[i], hybrid)
            /\ IF position <= hybrid.topK
               THEN position <= Len(sources) /\ sources[position].id = id
               ELSE \A k \in DOMAIN sources : sources[k].id # id

(***************************************************************************)
(* Properties of the cosine.                                               *)
(***************************************************************************)
CosineReturned == unit.pc = "returned"
IsZeroVector(v) == \A i \in DOMAIN v : v[i] = 0

\* C23 as stated: for all embeddings v, cosineSimilarity(v, v) = 1, and for
\* all equal-length v1 and v2, cosineSimilarity(v1, v2) = cosineSimilarity(v2, v1).
C23_AsStated ==
  CosineReturned =>
    /\ unit.vec1 = unit.vec2 => unit.result = FracOfInt(1)
    /\ unit.result = cosineSimilarity(unit.vec2.vector, unit.vec1.vector)

\* C23: for every embedding v with a non-zero component cosineSimilarity(v, v)
\* is 1, for a vector of zeros (and for the empty vector) it is 0, and for all
\* equal-length v1 and v2, cosineSimilarity(v1, v2) = cosineSimilarity(v2, v1).
C23_SelfSimilarityAndSymmetry ==
  CosineReturned =>
    /\ unit.vec1 = unit.vec2 =>
         unit.result = IF IsZeroVector(unit.vec1.vector) THEN FracOfInt(0) ELSE FracOfInt(1)
    /\ unit.result = cosineSimilarity(unit.vec2.vector, unit.vec1.vector)

\* a pair of different vectors that are neither orthogonal nor parallel
C23_Witness ==
  /\ CosineReturned
  /\ unit.vec1 # unit.vec2
  /\ unit.result \notin {FracOfInt(0), FracOfInt(1), FracOfInt(-1)}

\* the indexes of the placeholders of a query text, from left to right: a
\* placeholder is a $ with the digits after it, outside a quoted literal
PlaceholdersOf(text) ==
  LET IsDigit(piece) == \E d \in 1..10 : Digits[d] = piece
      DigitValue(piece) == (CHOOSE d \in 1..10 : Digits[d] = piece) - 1
      InLiteral(i) == Cardinality({j \in 1..(i - 1) : text[j] = "'"}) % 2 = 1
      DigitsAfter(i) ==
        CHOOSE n \in 0..(Len(text) - i) :
          /\ \A j \in 1..n : IsDigit(text[i + j])
          /\ i + n = Len(text) \/ ~IsDigit(text[i + n + 1])
      NumberAt(i) ==
        LET N[j \in 0..DigitsAfter(i)] ==
              IF j = 0 THEN 0 ELSE 10 * N[j - 1] + DigitValue(text[i + j])
        IN  N[DigitsAfter(i)]
      F[i \in 0..Len(text)] ==
        IF i = 0 THEN <<>>
        ELSE IF text[i] = "$" /\ ~InLiteral(i) /\ DigitsAfter(i) > 0
        THEN Append(F[i - 1], NumberAt(i))
        ELSE F[i - 1]
  IN  F[Len(text)]

\* C29: buildFilterQuery(filter, k) returns nextIndex = k + params.length, and
\* the placeholders of the query text are $k, ..., $(nextIndex - 1), each once
\* and from left to right, so that the i-th placeholder is the i-th element of
\* params.
C29_PlaceholdersNumberParams ==
  Compiled /\ hybrid.result.err = "none" =>
    /\ hybrid.result.nextIndex = hybrid.paramIndex + Len(hybrid.result.params)
    /\ PlaceholdersOf(hybrid.result.query)
         = [i \in 1..Len(hybrid.result.params) |-> hybrid.paramIndex + i - 1]

\* the operators the denotation below is given for
DenotedOperators == {"$eq", "$gt", "$gte", "$lt", "$lte", "$in", "$between"}
IsScalar(v) == v.type \in {"string", "number", "boolean"}

\* a filter made of $and and $or on lists of filters, $not on a filter, fields
\* with a plain scalar value, and fields with operators of DenotedOperators on
\* values of their kind ($between on two numbers, $in on a list of scalars),
\* all on field names without quotes
RECURSIVE Denoted(_)
Denoted(filter) ==
  /\ filter.type = "object"
  /\ \A e \in 1..Len(filter.val) :
       LET key == filter.val[e].key
           value == filter.val[e].value
       IN  CASE key \in {"$and", "$or"} ->
                  value.type = "array" /\ \A i \in 1..Len(value.val) : Denoted(value.val[i])
             [] key = "$not" -> Denoted(value)
             [] OTHER ->
                  /\ key # QuotedKey
                  /\ \/ IsScalar(value)
                     \/ /\ value.type = "object"
                        /\ \A o \in 1..Len(value.val) :
                             LET op == value.val[o].key
                                 val == value.val[o].value
                             IN  /\ op \in DenotedOperators
                                 /\ op = "$eq" => IsScalar(val)
                                 /\ op \in {"$gt", "$gte", "$lt", "$lte"} =>
                                      val.type = "number"
                                 /\ op = "$in" =>
                                      /\ val.type = "array"
                                      /\ \A i \in 1..Len(val.val) : IsScalar(val.val[i])
                                 /\ op = "$between" =>
                                      /\ val.type = "array" /\ Len(val.val) = 2
                                      /\ \A i \in 1..2 : val.val[i].type = "number"

\* the item meets the filter: $and is the conjunction of its members, $or the
\* disjunction, $not the negation; an operator compares the value of the field
\* of an item that has the field; keys and operators are conjoined
RECURSIVE Matches(_, _)
Matches(filter, item) ==
  \A e \in 1..Len(filter.val) :
    LET key == filter.val[e].key
        value == filter.val[e].value
        has == key \in DOMAIN item
        numeric == has /\ item[key].type = "number"
    IN  CASE key = "$and" -> \A i \in 1..Len(value.val) : Matches(value.val[i], item)
          [] key = "$or" -> \E i \in 1..Len(value.val) : Matches(value.val[i], item)
          [] key = "$not" -> ~Matches(value, item)
          [] OTHER ->
               IF value.type # "object" THEN has /\ item[key] = value
               ELSE \A o \in 1..Len(value.val) :
                      LET op == value.val[o].key
                          val == value.val[o].value
                      IN  CASE op = "$eq" -> has /\ item[key] = val
                            [] op = "$gt" -> numeric /\ item[key].val > val.val
                            [] op = "$gte" -> numeric /\ item[key].val >= val.val
                            [] op = "$lt" -> numeric /\ item[key].val < val.val
                            [] op = "$lte" -> numeric /\ item[key].val <= val.val
                            [] op = "$in" ->
                                 has /\ \E i \in 1..Len(val.val) : item[key] = val.val[i]
                            [] op = "$between" ->
                                 /\ numeric
                                 /\ val.val[1].val <= item[key].val
                                 /\ item[key].val <= val.val[2].val

\* C21: the predicate buildFilterQuery compiles from a filter selects, of a
\* bounded set of items, exactly the items the filter denotes: $and the
\* intersection, $or the union, $not the complement, the comparisons on the
\* numeric value of the field, $between with both bounds, $in the members, a
\* plain value equality, keys and operators conjoined.
C21_CompiledSelectsDenoted ==
  Compiled /\ hybrid.result.err = "none" /\ Denoted(hybrid.filter) =>
    Selected(hybrid.result, hybrid.paramIndex)
      = {item \in Items : Matches(hybrid.filter, item)}

\* C22: a hybrid query reports filtersApplied equal to the number of top-level
\* constraints of the filter it was given and queries the store with that
\* filter; filtersApplied is 0 and the store query is without filter only when
\* no filter, or a filter without keys, was given.
C22_FiltersAppliedCountsKeys ==
  HybridReturned =>
    LET constraints == IF hybrid.filter.type = "undefined" THEN 0
                       ELSE Len(KeysOf(hybrid.filter))
    IN  /\ hybrid.response.queryMetadata.filtersApplied = constraints
        /\ hybrid.filterConditions
             = IF constraints = 0 THEN JObj(<<>>) ELSE hybrid.filter

\* the four signals of a call: the vector score and the freshness, popularity
\* and tag scores of the metadata
SignalsOf(vectorScore, metadata, queryText, now) ==
  <<vectorScore, FreshnessScore(metadata, now), PopularityScore(metadata),
    TagScore(metadata, queryText)>>

\* one signal is higher in higher than in lower and the three others are the same
RaisesOneSignal(lower, higher) ==
  \E i \in 1..4 :
    /\ NumGT(higher[i], lower[i])
    /\ \A j \in (1..4) \ {i} : higher[j] = lower[j]

\* C24: with the weights of the call fixed, a call that has one signal higher
\* and the three others the same never returns a lower hybrid score, whatever
\* the weights are.
C24_ScoreMonotoneInSignals ==
  Scored =>
    \A vectorScore \in VectorScores, metadata \in Metadatas :
      RaisesOneSignal(SignalsOf(hybrid.vectorScore, hybrid.metadata, hybrid.queryText,
                                hybrid.now),
                      SignalsOf(vectorScore, metadata, hybrid.queryText, hybrid.now))
        => ~NumGT(hybrid.hybridScore,
                  calculateHybridScore(vectorScore, metadata, hybrid.queryText,
                                       hybrid.weights, hybrid.now))

(***************************************************************************)
(* Properties of the custom preset.                                        *)
(***************************************************************************)
\* C25: searchWithCustomPreset hands on, for each of vector, freshness,
\* popularity and tags, the weight the caller supplied, a weight of 0
\* included, and the default 0.6, 0.2, 0.15, 0.05 for a weight the caller
\* omitted.
C25_SuppliedWeightsHandedOn ==
  hybrid.pc = "handed" =>
    \A name \in WeightNames :
      hybrid.context.scoringWeights[name]
        = IF "scoringWeights" \in DOMAIN hybrid.options
               /\ name \in DOMAIN hybrid.options.scoringWeights
          THEN hybrid.options.scoringWeights[name]
          ELSE DefaultWeights[name]

====
